---------------------------- MODULE Spec2Model ----------------------------
(***************************************************************************)
(* A model of the cxj-template CodeMirror mode (src/src/index.ts): the     *)
(* matcher (match, matchWithEscape, checkEscape), the regular-expression   *)
(* normaliser (makeSureAnchor, getCachedRegExp), the layer scanner         *)
(* (createLayers), the token dispatcher (token, tokenPattern, tokenUntil,  *)
(* syncState) and the mode object (startState, copyState).                 *)
(*                                                                         *)
(* Text is a sequence of one-character strings; positions are 0-based as   *)
(* in the source, so the character at position p of line is line[p + 1].   *)
(***************************************************************************)
EXTENDS Integers, Sequences, FiniteSets, TLC

(***************************************************************************)
(* Text helpers: the String.prototype methods the source uses.             *)
(***************************************************************************)

\* JavaScript null as a matched text: a value that is no text (its element
\* is not a single character).
NULL == <<"null">>

\* matched ? matched.length : 0  (null and "" are both falsy)
Length(matched) == IF matched = NULL THEN 0 ELSE Len(matched)

SetMin(S) == CHOOSE x \in S : \A y \in S : x <= y

\* line.slice(from, to) and line.substring(from, to) for 0 <= from
slice(line, from, to) ==
    LET t == IF to > Len(line) THEN Len(line) ELSE to
    IN  IF from >= t THEN <<>> ELSE SubSeq(line, from + 1, t)

\* text occurs in line at position p
OccursAt(line, p, text) ==
    /\ p >= 0
    /\ p + Len(text) <= Len(line)
    /\ SubSeq(line, p + 1, p + Len(text)) = text

\* line.indexOf(text, from): the first position from from on where text
\* occurs, or -1
RECURSIVE indexOf(_, _, _)
indexOf(line, text, from) ==
    IF from + Len(text) > Len(line) THEN -1
    ELSE IF OccursAt(line, from, text) THEN from
    ELSE indexOf(line, text, from + 1)

\* line.endsWith(text, position): line.substring(0, position) ends with text
endsWith(line, text, position) ==
    LET p == IF position > Len(line) THEN Len(line) ELSE position
    IN  OccursAt(line, p - Len(text), text)

\* source.startsWith(c)
startsWith(source, c) == Len(source) >= 1 /\ source[1] = c

\* \s of JavaScript regular expressions, over the characters of the model
Whitespace == {" ", "\n"}

(***************************************************************************)
(* The regular expressions of the host language (new RegExp, exec), for    *)
(* the subset of the syntax the grammars of the model use: literal         *)
(* characters, backslash escapes (\s is the white-space class, any other   *)
(* escaped character stands for itself), the assertions ^ and $, the       *)
(* postfix quantifiers * and ? on a one-character atom, and alternation |  *)
(* at the top level.  Matching is the backtracking, leftmost,              *)
(* first-alternative, greedy matching of ECMAScript.                       *)
(***************************************************************************)

Atom(t, c) == [t |-> t, c |-> c, q |-> "1"]

\* new RegExp(source): the alternatives, each a sequence of atoms; ok is
\* FALSE when the constructor throws a SyntaxError (a trailing backslash,
\* or a quantifier with nothing to repeat).
RECURSIVE RegExpParse(_, _, _, _)
RegExpParse(source, i, alts, cur) ==
    IF i > Len(source) THEN [ok |-> TRUE, alts |-> Append(alts, cur)]
    ELSE LET c == source[i] IN
        CASE c = "|" -> RegExpParse(source, i + 1, Append(alts, cur), <<>>)
          [] c = "\\" ->
                IF i = Len(source) THEN [ok |-> FALSE, alts |-> <<>>]
                ELSE RegExpParse(source, i + 2, alts,
                        Append(cur, Atom(IF source[i + 1] = "s" THEN "space" ELSE "lit",
                                         source[i + 1])))
          [] c = "^" -> RegExpParse(source, i + 1, alts, Append(cur, Atom("bol", c)))
          [] c = "$" -> RegExpParse(source, i + 1, alts, Append(cur, Atom("eol", c)))
          [] c \in {"*", "?"} ->
                IF cur = <<>> \/ cur[Len(cur)].t \in {"bol", "eol"} \/ cur[Len(cur)].q # "1"
                THEN [ok |-> FALSE, alts |-> <<>>]
                ELSE RegExpParse(source, i + 1, alts,
                        [cur EXCEPT ![Len(cur)] = [@ EXCEPT !.q = c]])
          [] OTHER -> RegExpParse(source, i + 1, alts, Append(cur, Atom("lit", c)))

AtomTakes(a, ch) == IF a.t = "space" THEN ch \in Whitespace ELSE ch = a.c

\* The end of the match of atoms[k..] with s starting at position i, or -1.
RECURSIVE MatchAtoms(_, _, _, _)
MatchAtoms(atoms, k, s, i) ==
    IF k > Len(atoms) THEN i
    ELSE LET a   == atoms[k]
             hit == i < Len(s) /\ AtomTakes(a, s[i + 1])
         IN  CASE a.t = "bol" -> IF i = 0 THEN MatchAtoms(atoms, k + 1, s, i) ELSE -1
               [] a.t = "eol" -> IF i = Len(s) THEN MatchAtoms(atoms, k + 1, s, i) ELSE -1
               [] a.q = "1" -> IF hit THEN MatchAtoms(atoms, k + 1, s, i + 1) ELSE -1
               [] a.q = "?" ->
                    LET r == IF hit THEN MatchAtoms(atoms, k + 1, s, i + 1) ELSE -1
                    IN  IF r # -1 THEN r ELSE MatchAtoms(atoms, k + 1, s, i)
               [] OTHER ->
                    LET r == IF hit THEN MatchAtoms(atoms, k, s, i + 1) ELSE -1
                    IN  IF r # -1 THEN r ELSE MatchAtoms(atoms, k + 1, s, i)

\* The end of the match of the first alternative that matches at i, or -1.
RECURSIVE MatchAlts(_, _, _, _)
MatchAlts(alts, n, s, i) ==
    IF n > Len(alts) THEN -1
    ELSE LET e == MatchAtoms(alts[n], 1, s, i)
         IN  IF e # -1 THEN e ELSE MatchAlts(alts, n + 1, s, i)

RECURSIVE ExecFrom(_, _, _)
ExecFrom(alts, s, start) ==
    IF start > Len(s) THEN <<-1, NULL>>
    ELSE LET e == MatchAlts(alts, 1, s, start)
         IN  IF e # -1 THEN <<start, slice(s, start, e)>>
             ELSE ExecFrom(alts, s, start + 1)

\* The position a match reports when compiling the expression throws.
THROWN == -2

\* reg.lastIndex = lastIndex; reg.exec(s), as <<result.index, result[0]>>,
\* <<-1, NULL>> for a null result.  Only a global expression starts at
\* lastIndex.
RegExpExec(reg, lastIndex, s) ==
    LET parsed == RegExpParse(reg.source, 1, <<>>, <<>>)
        global == \E k \in 1 .. Len(reg.flags) : reg.flags[k] = "g"
    IN  IF ~parsed.ok THEN <<THROWN, NULL>>
        ELSE ExecFrom(parsed.alts, s, IF global THEN lastIndex ELSE 0)

(***************************************************************************)
(* The regular-expression normaliser (index.ts 98-153).                    *)
(***************************************************************************)

AnchorMode == [NONE |-> 0, START |-> 1, END |-> 2, ALL |-> 3]

makeSureAnchor(source, start, exist) ==
    IF start
    THEN IF exist /\ ~startsWith(source, "^") THEN <<"^">> \o source
         ELSE IF ~exist /\ startsWith(source, "^") THEN Tail(source)
         ELSE source
    ELSE IF exist /\ ~endsWith(source, <<"$">>, Len(source)) THEN source \o <<"$">>
         ELSE IF ~exist /\ endsWith(source, <<"$">>, Len(source))
              THEN slice(source, 0, Len(source) - 1)
         ELSE source

\* flags.replace(/g/g, '')
RECURSIVE DropG(_)
DropG(flags) ==
    IF flags = <<>> THEN <<>>
    ELSE IF Head(flags) = "g" THEN DropG(Tail(flags))
    ELSE <<Head(flags)>> \o DropG(Tail(flags))

\* The expression getCachedRegExp returns.  The cache maps the key made of
\* the rewritten source and flags to the expression compiled from exactly
\* them, and both callers set lastIndex before exec, so the expression is
\* a function of the key: the model returns it by value.
getCachedRegExp(regExp, anchor, global) ==
    LET source ==
            CASE anchor = AnchorMode.ALL ->
                    makeSureAnchor(makeSureAnchor(regExp.source, TRUE, TRUE), FALSE, TRUE)
              [] anchor = AnchorMode.END ->
                    makeSureAnchor(makeSureAnchor(regExp.source, TRUE, FALSE), FALSE, TRUE)
              [] anchor = AnchorMode.NONE ->
                    makeSureAnchor(makeSureAnchor(regExp.source, TRUE, FALSE), FALSE, FALSE)
              [] OTHER ->
                    makeSureAnchor(makeSureAnchor(regExp.source, TRUE, TRUE), FALSE, FALSE)
        hasG == \E k \in 1 .. Len(regExp.flags) : regExp.flags[k] = "g"
        flags == IF global /\ ~hasG THEN regExp.flags \o <<"g">>
                 ELSE IF ~global /\ hasG THEN DropG(regExp.flags)
                 ELSE regExp.flags
    IN  [source |-> source, flags |-> flags]

(***************************************************************************)
(* Matcher specs (PatternLike, index.ts 8): a literal string, a regular    *)
(* expression, a callback, or absent.                                      *)
(***************************************************************************)

None == [kind |-> "none"]
Str(text) == [kind |-> "string", text |-> text]
Reg(source, flags) == [kind |-> "regexp", source |-> source, flags |-> flags]
Fn(name) == [kind |-> "function", fn |-> name]

MatchMode == [DEFAULT |-> 0, PREFIX |-> 1]

\* REG_SPACE.test(text), REG_SPACE = /^\s*$/ (index.ts 160)
REG_SPACE(text) == \A k \in 1 .. Len(text) : text[k] \in Whitespace

\* templateOpen gone wrong: the text before the "[" is not looked at.
templateOpenAnyText(text, from, state) ==
    LET pos == indexOf(text, <<"[">>, from)
    IN  IF state.customs.justExitTemplate # "true" \/ pos < 0
        THEN <<-1, NULL>>
        ELSE <<pos, <<"[">> >>

\* The opener of the template pattern (index.ts 556-562): the next "[",
\* accepted only right after the exit of a template or flag header, with
\* nothing but white space in between.
templateOpen(text, from, state) ==
    LET pos == indexOf(text, <<"[">>, from)
    IN  IF \/ state.customs.justExitTemplate # "true"
           \/ (pos >= 0 /\ ~REG_SPACE(state.textBefore \o slice(text, from, pos)))
        THEN <<-1, NULL>>
        ELSE IF pos >= 0 THEN <<pos, <<"[">> >> ELSE <<-1, NULL>>

\* match (index.ts 163-186)
match(line, position, mode, pattern, state) ==
    CASE pattern.kind = "string" ->
            IF mode = MatchMode.DEFAULT
            THEN LET index == indexOf(line, pattern.text, position)
                 IN  <<index, IF index >= 0 THEN pattern.text ELSE NULL>>
            ELSE IF endsWith(line, pattern.text, position)
                 THEN <<position - Len(pattern.text), pattern.text>>
                 ELSE <<-1, NULL>>
      [] pattern.kind = "function" -> templateOpen(line, position, state)
      [] OTHER ->
            IF mode = MatchMode.DEFAULT
            THEN RegExpExec(getCachedRegExp(pattern, AnchorMode.NONE, TRUE), position, line)
            ELSE RegExpExec(getCachedRegExp(pattern, AnchorMode.END, FALSE), 0,
                            slice(line, 0, position))

\* checkEscape gone wrong: the escape is searched forward from the
\* occurrence instead of being checked as the text that ends at it.
checkEscapeForward(state, line, offset, escape) ==
    IF escape.kind = "none" THEN FALSE
    ELSE match(line, offset, MatchMode.DEFAULT, escape, state)[1] >= 0

\* checkEscape (index.ts 203-207)
checkEscape(state, line, offset, escape) ==
    IF escape.kind = "none" THEN FALSE
    ELSE match(line, offset, MatchMode.PREFIX, escape, state)[1] >= 0

\* The position a call reports when it never returns.
HANGS == -3

\* The loop of matchWithEscape (index.ts 191-198), entered with the match
\* m = <<pos, matched>> in hand and escaped as it stands; the result is
\* <<pos, matched, escaped>> at the loop's exit.  A match that throws ends
\* the call.  After an escaped match of no length (matched null or ''),
\* next is pos: the search from it gives the same match at pos, which is
\* escaped again, and the loop goes round for ever.
RECURSIVE matchWithEscapeLoop(_, _, _, _, _, _)
matchWithEscapeLoop(line, m, escaped, pattern, escape, state) ==
    IF m[1] = -1 \/ m[1] = THROWN THEN <<m[1], m[2], escaped /\ m[1] # THROWN>>
    ELSE IF ~checkEscape(state, line, m[1], escape) THEN <<m[1], m[2], FALSE>>
    ELSE IF Length(m[2]) = 0 THEN <<HANGS, NULL, FALSE>>
    ELSE matchWithEscapeLoop(line,
            match(line, m[1] + Length(m[2]), MatchMode.DEFAULT, pattern, state),
            TRUE, pattern, escape, state)

\* The end of matchWithEscape (index.ts 199-200), r being <<pos, matched,
\* escaped>>.
matchWithEscapeReturn(r) ==
    LET pos == IF r[3] THEN -1 ELSE r[1]
    IN  <<pos, IF pos # -1 /\ pos # THROWN /\ pos # HANGS THEN r[2] ELSE NULL>>

\* matchWithEscape (index.ts 188-201)
matchWithEscape(line, position, pattern, escape, state) ==
    matchWithEscapeReturn(
        matchWithEscapeLoop(line, match(line, position, MatchMode.DEFAULT, pattern, state),
                            FALSE, pattern, escape, state))

(***************************************************************************)
(* Patterns (IPattern, index.ts 10-18) and the grammars.  A pattern is     *)
(* named by an identifier, and children lists hold identifiers: patterns   *)
(* are shared by reference and never copied.  mode "null" is no mode;      *)
(* patternStyles <<>> is no patternStyles.                                 *)
(***************************************************************************)

Pattern(mode, open, close, escape, children, includePattern, patternStyles) ==
    [mode |-> mode, open |-> open, close |-> close, escape |-> escape,
     children |-> children, includePattern |-> includePattern,
     patternStyles |-> patternStyles]

\* children of createDefaultOptions (index.ts 539)
DefaultChildren == <<"singleQuote", "doubleQuote", "parenthesis", "bracket", "brace">>

\* createDefaultOptions(baseMode, codeMode) (index.ts 511-590): the patterns
\* it builds, "root" being the options object it returns, with its hooks
\* ("none" for one it does not have).
createDefaultOptions(baseMode, codeMode) ==
    [root |-> [mode |-> baseMode, open |-> None, close |-> None, escape |-> None,
               children |-> <<"singleQuote", "doubleQuote", "code", "templateHeader",
                              "template">>,
               includePattern |-> FALSE, patternStyles |-> <<>>,
               beforeEnter |-> "defaultBeforeEnter", afterEnter |-> "none",
               beforeExit |-> "none", afterExit |-> "defaultAfterExit"],
     singleQuote |-> Pattern("null", Str(<<"'">>), Str(<<"'">>), Str(<<"\\">>),
                <<>>, FALSE, <<>>),
     doubleQuote |-> Pattern("null", Str(<<"\"">>), Str(<<"\"">>), Str(<<"\\">>),
                <<>>, FALSE, <<>>),
     parenthesis |-> Pattern("null", Str(<<"(">>), Str(<<")">>), None,
                DefaultChildren, FALSE, <<>>),
     bracket |-> Pattern("null", Str(<<"[">>), Str(<<"]">>), None,
                DefaultChildren, FALSE, <<>>),
     brace |-> Pattern("null", Str(<<"{">>), Str(<<"}">>), None,
                DefaultChildren, FALSE, <<>>),
     code |-> Pattern(codeMode, Reg(<<"#", "{", "\\", "s", "*", ":", "?">>, <<>>),
                Str(<<"}">>), None, DefaultChildren, FALSE,
                <<"bracket cxj-code open", "bracket cxj-code close">>),
     templateHeader |-> Pattern("cxj-template-flag", Str(<<"#", "[">>), Str(<<"]">>), None,
                <<>>, FALSE,
                <<"bracket cxj-template cxj-template-flag open",
                  "bracket cxj-template cxj-template-flag close">>),
     template |-> Pattern(baseMode, Fn("template.open"), Str(<<"]">>), None,
                <<"code">> \o DefaultChildren, FALSE,
                <<"bracket cxj-template open", "bracket cxj-template close">>)]

\* The patterns a caller's own grammar adds: P closes on "b", which is
\* also the opener of its first child Q; its second child R opens on "c";
\* "e" escapes P's closer and its children's openers.  P brings the code
\* sub-mode and has no patternStyles; R has patternStyles and no mode.
\* S opens on "x" and T, declared after it, on "xx"; V opens on "ww" and
\* W, declared after it, on "w"; V brings the code sub-mode and has
\* includePattern.
CustomPatterns ==
    [P |-> Pattern("code", Str(<<"a">>), Str(<<"b">>), Str(<<"e">>),
                <<"Q", "R">>, FALSE, <<>>),
     Q |-> Pattern("null", Str(<<"b">>), Str(<<"c">>), None, <<>>, FALSE, <<>>),
     R |-> Pattern("null", Str(<<"c">>), Str(<<"b">>), None, <<>>, FALSE,
                <<"R open", "R close">>),
     S |-> Pattern("null", Str(<<"x">>), Str(<<"b">>), None, <<>>, FALSE, <<>>),
     T |-> Pattern("null", Str(<<"x", "x">>), Str(<<"b">>), None, <<>>, FALSE, <<>>),
     V |-> Pattern("code", Str(<<"w", "w">>), Str(<<"b">>), None, <<>>, TRUE, <<>>),
     W |-> Pattern("null", Str(<<"w">>), Str(<<"b">>), None, <<>>, FALSE, <<>>)]

\* The parserConfig objects of the model: the demo's {name, mode, codeMode}
\* (index.ts 655-659), one that also gives children, open and close, and
\* one with no base mode and no code mode that gives the four hooks.
ParserConfigs == {"default", "custom", "plain"}

\* The parserConfig object as the caller writes it, name left out: a
\* record of the fields it gives.
CallerOptions(parserConfig) ==
    CASE parserConfig = "custom" ->
            [mode |-> "base", codeMode |-> "code", open |-> Str(<<"a">>),
             close |-> Str(<<"b">>), children |-> <<"P", "S", "T", "V", "W">>]
      [] parserConfig = "plain" ->
            [mode |-> "null", codeMode |-> "null",
             beforeEnter |-> "customBeforeEnter", afterEnter |-> "customAfterEnter",
             beforeExit |-> "customBeforeExit", afterExit |-> "customAfterExit"]
      [] OTHER -> [mode |-> "base", codeMode |-> "code"]

\* rest gone wrong: the caller's open and close stay among the fields
\* that override the default options.
restWithOpenClose(options) ==
    [f \in DOMAIN options \ {"mode", "codeMode", "beforeEnter", "afterExit"} |->
        options[f]]

\* rest of the destructuring of parserConfig (index.ts 433-439): the
\* caller's fields but mode, codeMode, open, close, beforeEnter, afterExit.
rest(options) ==
    [f \in DOMAIN options \
            {"mode", "codeMode", "open", "close", "beforeEnter", "afterExit"} |->
        options[f]]

\* {...restDefaultOptions, ...rest} (index.ts 446-448): the fields of the
\* default options, each overridden by the caller's when rest has it.
spread(restDefaultOptions, restOptions) ==
    [f \in DOMAIN restDefaultOptions |->
        IF f \in DOMAIN restOptions THEN restOptions[f] ELSE restDefaultOptions[f]]

\* The hook the caller gives under name, "none" if it gives none.
customHook(options, name) == IF name \in DOMAIN options THEN options[name] ELSE "none"

\* composed gone wrong: the caller's hook, when there is one, takes the
\* place of the default one, as a spread of the caller's fields would do.
composedReplaced(defaultHook, custom) ==
    IF custom # "none" THEN <<custom>> ELSE <<defaultHook>>

\* beforeEnter and afterExit of finalParserConfig (index.ts 449-456): the
\* default hook, then the caller's; a hook of the final options is the
\* sequence of the hooks it calls.
composed(defaultHook, custom) == <<defaultHook, custom>>

\* The root pattern: the merged fields with the composed beforeEnter and
\* afterExit; afterEnter and beforeExit are the caller's (index.ts 446-457).
finalRoot(options, defaultRoot) ==
    [f \in DOMAIN defaultRoot |->
        CASE f = "beforeEnter" ->
                composed(defaultRoot.beforeEnter, customHook(options, "beforeEnter"))
          [] f = "afterExit" ->
                composed(defaultRoot.afterExit, customHook(options, "afterExit"))
          [] f \in {"afterEnter", "beforeExit"} ->
                <<spread(defaultRoot, rest(options))[f]>>
          [] OTHER -> spread(defaultRoot, rest(options))[f]]

\* finalParserConfig (index.ts 433-457), which is the root pattern, with
\* the patterns its children lead to.
finalParserConfig(parserConfig) ==
    LET options == CallerOptions(parserConfig)
        defaultOptions == createDefaultOptions(options.mode, options.codeMode)
    IN  [id \in DOMAIN defaultOptions \cup DOMAIN CustomPatterns |->
            IF id = "root" THEN finalRoot(options, defaultOptions.root)
            ELSE IF id \in DOMAIN CustomPatterns THEN CustomPatterns[id]
            ELSE defaultOptions[id]]

(***************************************************************************)
(* The pattern-context stack (IPatternContext): the sequence of the        *)
(* patterns of the linked contexts, top first.  Contexts are never         *)
(* modified once built, so the sequence stands for the links.              *)
(***************************************************************************)

pushPatternContext(state, pattern) ==
    [state EXCEPT !.patternContext = <<pattern>> \o @]

\* popPatternContext gone wrong: the context stays.
popPatternContextKeeps(state) == state

popPatternContext(state) ==
    [state EXCEPT !.patternContext = Tail(@)]

getCurrentPattern(state) == Head(state.patternContext)

\* beforeEnter of the default options (index.ts 579-581)
beforeEnter(state, pattern) ==
    [state EXCEPT !.customs = [@ EXCEPT !.justExitTemplate = "false"]]

\* afterExit gone wrong: the exit of a template leaves no mark.
afterExitForgets(state, pattern) == state

\* afterExit of the default options (index.ts 574-578)
afterExit(state, pattern) ==
    IF pattern \in {"template", "templateHeader"}
    THEN [state EXCEPT !.customs = [@ EXCEPT !.justExitTemplate = "true"]]
    ELSE state

\* A hook of the caller (Callback, index.ts 20): the caller of the model
\* keeps a trace in customs, to which each of its four hooks adds its
\* name, the pattern of the transition (info.pattern), and what it sees of
\* the state: the current pattern and customs.justExitTemplate.
customCallback(hook, state, pattern) ==
    [state EXCEPT !.customs =
        [@ EXCEPT !.trace = Append(@, [hook |-> hook, pattern |-> pattern,
                                       current |-> getCurrentPattern(state),
                                       justExitTemplate |-> state.customs.justExitTemplate])]]

\* The call of one hook (index.ts 263, 265, 268, 270, 450-451, 454-455);
\* a hook that is not there is not called.
callHook(hook, state, pattern) ==
    CASE hook = "none" -> state
      [] hook = "defaultBeforeEnter" -> beforeEnter(state, pattern)
      [] hook = "defaultAfterExit" -> afterExit(state, pattern)
      [] OTHER -> customCallback(hook, state, pattern)

\* The call of a hook of the final options: its hooks in order.
RECURSIVE callHooks(_, _, _)
callHooks(hooks, state, pattern) ==
    IF hooks = <<>> THEN state
    ELSE callHooks(Tail(hooks), callHook(Head(hooks), state, pattern), pattern)

FoundMode == [PUSH |-> 0, POP |-> 1, NONE |-> 2]

\* The test of index.ts 250 gone wrong: <= for <, so that an opener at
\* the closer's position replaces it.
openerWinsOnTie(tmpPos, pos) == tmpPos >= 0 /\ (pos = -1 \/ tmpPos <= pos)

\* The test that lets a child's opener replace the transition found so
\* far (index.ts 250): it matched, and nothing was found yet or it lies
\* strictly before it.
openerWins(tmpPos, pos) == tmpPos >= 0 /\ (pos = -1 \/ tmpPos < pos)

\* childFound gone wrong: of two openers at one position, the one with
\* the shorter match is taken.
childFoundShortest(acc, child, m) ==
    IF \/ openerWins(m[1], acc[2])
       \/ (m[1] >= 0 /\ m[1] = acc[2] /\ acc[1] = FoundMode.PUSH
                /\ Length(m[2]) < Length(acc[3]))
    THEN <<FoundMode.PUSH, m[1], m[2], child>>
    ELSE acc

\* The body of the loop over the children (index.ts 249-255): acc is
\* <<found, pos, matched, nextPattern>> so far, m the match of the
\* child's opener.
childFound(acc, child, m) ==
    IF openerWins(m[1], acc[2]) THEN <<FoundMode.PUSH, m[1], m[2], child>> ELSE acc

\* The loop over the children (index.ts 245-258)
RECURSIVE childrenLoop(_, _, _, _, _, _, _, _)
childrenLoop(patterns, children, k, escape, line, offset, state, acc) ==
    IF k > Len(children) THEN acc
    ELSE childrenLoop(patterns, children, k + 1, escape, line, offset, state,
            IF patterns[children[k]].open.kind # "none"
            THEN childFound(acc, children[k],
                    matchWithEscape(line, offset, patterns[children[k]].open, escape, state))
            ELSE acc)

\* The closer's part (index.ts 237-244): <<found, pos, matched,
\* nextPattern>> after it, c the match of the closer.
closeFound(prePattern, c) ==
    IF c[1] >= 0 THEN <<FoundMode.POP, c[1], c[2], prePattern>>
    ELSE <<FoundMode.NONE, -1, NULL, prePattern>>

\* What one round of the loop of createLayers finds (index.ts 228-258)
findLayer(patterns, prePattern, state, line, offset) ==
    childrenLoop(patterns, patterns[prePattern].children, 1, patterns[prePattern].escape,
                 line, offset, state,
                 IF patterns[prePattern].close.kind # "none"
                 THEN closeFound(prePattern,
                        matchWithEscape(line, offset, patterns[prePattern].close,
                                        patterns[prePattern].escape, state))
                 ELSE <<FoundMode.NONE, -1, NULL, prePattern>>)

\* The state after the transition f = <<found, pos, matched, nextPattern>>
\* (index.ts 260-283), textBefore not yet emptied; root is the final
\* parserConfig, which has the hooks.
layerState(root, state, line, offset, f) ==
    LET s1 == [state EXCEPT !.textBefore = @ \o slice(line, offset, f[2])]
    IN  IF f[1] = FoundMode.PUSH
        THEN callHooks(root.afterEnter,
                pushPatternContext(callHooks(root.beforeEnter, s1, f[4]), f[4]), f[4])
        ELSE callHooks(root.afterExit,
                popPatternContext(callHooks(root.beforeExit, s1, getCurrentPattern(state))),
                getCurrentPattern(state))

\* The layer recorded for f (index.ts 268-274, 277-283), s2 the state
\* after the transition.
\* layerOf without the refresh of nextPattern after a pop (index.ts 271):
\* the layer keeps the nextPattern the search left.
layerOfStale(state, f, s2) ==
    [pos |-> f[2], matched |-> f[3], open |-> (f[1] = FoundMode.PUSH),
     prePattern |-> getCurrentPattern(state), nextPattern |-> f[4]]

layerOf(state, f, s2) ==
    [pos |-> f[2], matched |-> f[3], open |-> (f[1] = FoundMode.PUSH),
     prePattern |-> getCurrentPattern(state), nextPattern |-> getCurrentPattern(s2)]

\* The loop of createLayers (index.ts 227-286).  stacks is the
\* pattern-context stack after each layer, kept for the properties.  When
\* the pop leaves no context, getCurrentPattern (index.ts 271, 95) reads
\* pattern of null and throws a TypeError: the scan ends there, with the
\* state as it is.
RECURSIVE createLayersLoop(_, _, _, _, _, _)
RECURSIVE createLayersStep(_, _, _, _, _, _, _)
createLayersStep(patterns, state, line, offset, layers, stacks, f) ==
    IF f[1] = FoundMode.NONE
    THEN [state |-> [state EXCEPT !.textBefore = @ \o slice(line, offset, Len(line))],
          layers |-> layers, stacks |-> stacks, error |-> "none"]
    ELSE IF layerState(patterns.root, state, line, offset, f).patternContext = <<>>
    THEN [state |-> layerState(patterns.root, state, line, offset, f),
          layers |-> layers, stacks |-> stacks, error |-> "TypeError"]
    ELSE createLayersLoop(patterns,
            [layerState(patterns.root, state, line, offset, f) EXCEPT !.textBefore = <<>>],
            line, f[2] + Length(f[3]),
            Append(layers, layerOf(state, f, layerState(patterns.root, state, line, offset, f))),
            Append(stacks, layerState(patterns.root, state, line, offset, f).patternContext))

createLayersLoop(patterns, state, line, offset, layers, stacks) ==
    IF ~(offset < Len(line))
    THEN [state |-> state, layers |-> layers, stacks |-> stacks, error |-> "none"]
    ELSE createLayersStep(patterns, state, line, offset, layers, stacks,
            findLayer(patterns, getCurrentPattern(state), state, line, offset))

\* The patterns of each parserConfig of the model.
Patterns == [c \in ParserConfigs |-> finalParserConfig(c)]

\* createLayers (index.ts 223-288)
createLayers(parserConfig, state, line, offset) ==
    createLayersLoop(Patterns[parserConfig], state, line, offset, <<>>, <<>>)

(***************************************************************************)
(* Sub-modes.  The state objects of the sub-modes live in a heap, a        *)
(* function from addresses to values, so that two embedded-mode-state      *)
(* stacks can hold the same object.  An entry of the embedded-mode-state   *)
(* stack (IStateContext) is [mode, state], state being an address, or      *)
(* TRUE_STATE for the value true that CodeMirror.startState gives a mode   *)
(* without startState.  The stack is the sequence of the entries of the    *)
(* linked contexts, top first; contexts are never modified once built.     *)
(***************************************************************************)

TRUE_STATE == 0

\* The address of a new object: the least one not in use.
alloc(heap) == SetMin({a \in 1 .. Cardinality(DOMAIN heap) + 1 : a \notin DOMAIN heap})

\* The modes with a startState of their own: the base and the code mode,
\* which are the host's (sql and groovy in the demo).  Their state is a
\* number the mode's tokenizer reads and writes.
HasStartState(mode) == mode \in {"base", "code"}

\* The characters of the model's lines.
Letters == {"a", "b", "c", "d", "e", "f", "h", "i", "r", "w", "x", "0", "1"}
Chars == Letters \cup Whitespace \cup
         {"#", "[", "]", "{", "}", "(", ")", "=", "'", "\"", "\\", ":", "$", "|"}

\* The characters /\w/ matches, REG_WORD (index.ts 161)
REG_WORD == Letters

\* The position after the longest run of characters of set starting at
\* pos: stream.eatWhile and stream.eatSpace.
RECURSIVE eatWhile(_, _, _)
eatWhile(string, pos, set) ==
    IF pos < Len(string) /\ string[pos + 1] \in set THEN eatWhile(string, pos + 1, set)
    ELSE pos

\* FLAG_KEYWORDS (index.ts 413)
FLAG_KEYWORDS == {<<"i", "f">>}

\* token of the mode cxj-template-flag (index.ts 417-428); the result is
\* the new position and the style.
flagToken(stream) ==
    LET afterSpace == eatWhile(stream.string, stream.pos, Whitespace)
        afterWord  == eatWhile(stream.string, stream.pos, REG_WORD)
    IN  IF afterSpace > stream.pos THEN [pos |-> afterSpace, style |-> "null"]
        ELSE IF afterWord > stream.pos
        THEN [pos |-> afterWord,
              style |-> IF slice(stream.string, stream.start, afterWord) \in FLAG_KEYWORDS
                        THEN "keyword cxj-template-flag-keyword cxj-template-flag-keyword-if"
                        ELSE "null"]
        ELSE [pos |-> stream.pos + 1, style |-> "null"]

\* localMode.token(stream, localState) (index.ts 326, 386): the new
\* position, the new value of the state object, and the style.  The base
\* mode reads a run of white space, or a run of other characters; the code
\* mode reads one character; both style by their state and then flip it.
localModeToken(mode, stream, value) ==
    CASE mode = "cxj-template-flag" ->
            [pos |-> flagToken(stream).pos, value |-> value, style |-> flagToken(stream).style]
      [] mode = "base" ->
            LET afterSpace == eatWhile(stream.string, stream.pos, Whitespace)
            IN  IF afterSpace > stream.pos
                THEN [pos |-> afterSpace, value |-> value, style |-> "null"]
                ELSE [pos |-> eatWhile(stream.string, stream.pos, Chars \ Whitespace),
                      value |-> 1 - value,
                      style |-> IF value = 0 THEN "base even" ELSE "base odd"]
      [] OTHER ->
            [pos |-> stream.pos + 1, value |-> 1 - value,
             style |-> IF value = 0 THEN "code even" ELSE "code odd"]

(***************************************************************************)
(* The token dispatcher works on a machine [state, stream, heap, style,    *)
(* error, scan]: the tokenizer state, the host's stream, the heap of       *)
(* sub-mode states, the style returned, the error thrown ("none" when the  *)
(* call returns), and, for the properties, the layer scan the call made    *)
(* (NoScan when it made none): the line, the offset and the                *)
(* pattern-context stack it started from, the layers it found and the      *)
(* stack after each.                                                       *)
(***************************************************************************)

NoScan == [line |-> <<>>, offset |-> 0, entry |-> <<>>, layers |-> <<>>, stacks |-> <<>>]

\* pushStateContext (index.ts 68-79)
pushStateContext(m, mode) ==
    LET a == alloc(m.heap)
    IN  IF HasStartState(mode)
        THEN [m EXCEPT !.state.stateContext = <<[mode |-> mode, state |-> a]>> \o @,
                       !.heap = [x \in DOMAIN m.heap \cup {a} |->
                                    IF x = a THEN 0 ELSE m.heap[x]]]
        ELSE [m EXCEPT !.state.stateContext =
                            <<[mode |-> mode, state |-> TRUE_STATE]>> \o @]

\* popStateContext (index.ts 81-83): reading pre of a null stateContext
\* throws a TypeError.
popStateContext(m) ==
    IF m.state.stateContext = <<>> THEN [m EXCEPT !.error = "TypeError"]
    ELSE [m EXCEPT !.state.stateContext = Tail(@)]

\* syncState (index.ts 290-296)
syncState(patterns, m, layer) ==
    IF layer.open /\ patterns[layer.nextPattern].mode # "null"
    THEN pushStateContext(m, patterns[layer.nextPattern].mode)
    ELSE IF ~layer.open /\ patterns[layer.prePattern].mode # "null"
    THEN popStateContext(m)
    ELSE m

\* stream.eol()
eol(stream) == stream.pos >= Len(stream.string)

\* if (stream.eol()) state.textBefore += '\n'  (index.ts 314-316, 345-347)
newlineAtEol(m) ==
    IF m.error = "none" /\ eol(m.stream)
    THEN [m EXCEPT !.state.textBefore = @ \o <<"\n">>]
    ELSE m

\* layers.shift()
shiftLayers(m) == [m EXCEPT !.state.layers = Tail(@)]

\* tokenPattern (index.ts 298-318)
tokenPattern(patterns, m) ==
    IF m.state.layers = <<>> THEN [m EXCEPT !.error = "This is impossible!"]
    ELSE
    LET layer   == m.state.layers[1]
        pattern == IF layer.open THEN layer.nextPattern ELSE layer.prePattern
        patternStyles == patterns[pattern].patternStyles
    IN  IF m.stream.pos # layer.pos \/ patternStyles = <<>>
        THEN [m EXCEPT !.error = "This is impossible!"]
        ELSE LET m1 == [m EXCEPT !.state.useRoot = TRUE,
                                  !.stream.pos = layer.pos + Length(layer.matched)]
                 m2 == syncState(patterns, m1, layer)
             IN  IF m2.error # "none" THEN m2
                 ELSE [newlineAtEol(shiftLayers(m2)) EXCEPT
                            !.style = patternStyles[IF layer.open THEN 1 ELSE 2]]

\* delegate gone wrong: the stream is not backed up when the sub-mode
\* went past until.
delegateOverruns(m, until) ==
    IF m.state.stateContext # <<>>
    THEN LET top == m.state.stateContext[1]
             r   == localModeToken(top.mode, m.stream,
                        IF top.state = TRUE_STATE THEN 0 ELSE m.heap[top.state])
         IN  [m EXCEPT !.style = r.style,
                       !.stream.pos = r.pos,
                       !.heap = IF top.state = TRUE_STATE THEN @
                                ELSE [@ EXCEPT ![top.state] = r.value]]
    ELSE [m EXCEPT !.style = "null",
                   !.stream.pos = IF until >= 0 THEN until ELSE Len(m.stream.string)]

\* The sub-mode's token call of tokenUntil and token, with the stream
\* backed up to until when it went past it (index.ts 325-333); until is
\* -1 when there is no boundary (index.ts 383-390).
delegate(m, until) ==
    IF m.state.stateContext # <<>>
    THEN LET top == m.state.stateContext[1]
             r   == localModeToken(top.mode, m.stream,
                        IF top.state = TRUE_STATE THEN 0 ELSE m.heap[top.state])
         IN  [m EXCEPT !.style = r.style,
                       !.stream.pos = IF until >= 0 /\ r.pos > until THEN until ELSE r.pos,
                       !.heap = IF top.state = TRUE_STATE THEN @
                                ELSE [@ EXCEPT ![top.state] = r.value]]
    ELSE [m EXCEPT !.style = "null",
                   !.stream.pos = IF until >= 0 THEN until ELSE Len(m.stream.string)]

\* tokenUntilReach without layers.shift() (index.ts 341-343): the layer
\* stays pending after its delimiter has been read.
tokenUntilReachKeeps(patterns, m1, until, shift, syncStateWhenReach) ==
    LET m3 == IF syncStateWhenReach THEN syncState(patterns, m1, m1.state.layers[1])
              ELSE m1
    IN  newlineAtEol(IF m1.state.layers # <<>> /\ m1.stream.pos = until
                     THEN m3 ELSE m1)

\* The rest of tokenUntil after the sub-mode's call (index.ts 334-348),
\* m1 the machine after it.
tokenUntilReach(patterns, m1, until, shift, syncStateWhenReach) ==
    LET m3 == IF syncStateWhenReach THEN syncState(patterns, m1, m1.state.layers[1])
              ELSE m1
    IN  newlineAtEol(IF m1.state.layers # <<>> /\ m1.stream.pos = until
                     THEN (IF m3.error = "none" /\ shift THEN shiftLayers(m3) ELSE m3)
                     ELSE m1)

\* tokenUntil (index.ts 320-349).  When the caller's popStateContext has
\* thrown (index.ts 372), the call is never made.
tokenUntil(patterns, m, until, shift, syncStateWhenReach) ==
    IF m.error # "none" THEN m
    ELSE tokenUntilReach(patterns, delegate(m, until), until, shift, syncStateWhenReach)

\* The scan at the start of token (index.ts 352-356): the machine with the
\* state createLayers left, its layers, and the scan for the properties.
\* When createLayers throws, layers is not assigned.
scanned(m0, scan) ==
    [m0 EXCEPT !.state = [scan.state EXCEPT !.start = TRUE,
                                            !.useRoot = FALSE,
                                            !.layers = IF scan.error = "none" THEN scan.layers
                                                       ELSE m0.state.layers],
               !.error = scan.error,
               !.scan = [line |-> m0.stream.string,
                         offset |-> m0.stream.start,
                         entry |-> m0.state.patternContext,
                         layers |-> scan.layers,
                         stacks |-> scan.stacks]]

\* tokenLayer without the branches of includePattern (index.ts 368-373):
\* a delimiter without patternStyles always goes to the sub-mode that is
\* active, and the stack is synchronised when its end is reached.
tokenLayerSyncAtEnd(patterns, m, layer, pattern, end) ==
    IF m.stream.start < layer.pos
    THEN tokenUntil(patterns, m, layer.pos, FALSE, FALSE)
    ELSE IF m.stream.start = layer.pos /\ patterns[pattern].patternStyles # <<>>
    THEN tokenPattern(patterns, m)
    ELSE IF m.stream.start < end
    THEN tokenUntil(patterns, m, end, TRUE, TRUE)
    ELSE [m EXCEPT !.error = "This is impossible!"]

\* token at a layer (index.ts 359-381): pattern is the pattern entered or
\* left, end the position after the delimiter.
tokenLayer(patterns, m, layer, pattern, end) ==
    IF m.stream.start < layer.pos
    THEN tokenUntil(patterns, m, layer.pos, FALSE, FALSE)
    ELSE IF m.stream.start = layer.pos
    THEN IF patterns[pattern].patternStyles # <<>> THEN tokenPattern(patterns, m)
         ELSE IF layer.open /\ patterns[pattern].includePattern
         THEN tokenUntil(patterns,
                   IF patterns[layer.nextPattern].mode # "null"
                   THEN pushStateContext(m, patterns[layer.nextPattern].mode)
                   ELSE m,
                   end, TRUE, FALSE)
         ELSE IF ~layer.open /\ ~patterns[pattern].includePattern
         THEN tokenUntil(patterns,
                   IF patterns[layer.prePattern].mode # "null"
                   THEN popStateContext(m) ELSE m,
                   end, TRUE, FALSE)
         ELSE tokenUntil(patterns, m, end, TRUE, TRUE)
    ELSE IF m.stream.start < end
    THEN tokenUntil(patterns, m, end, TRUE, TRUE)
    ELSE [m EXCEPT !.error = "This is impossible!"]

\* token after the scan (index.ts 357-391); when the scan has thrown,
\* nothing of it is run.
tokenScanned(patterns, m) ==
    IF m.error # "none" THEN m
    ELSE IF m.state.layers # <<>>
    THEN tokenLayer(patterns, m, m.state.layers[1],
                    IF m.state.layers[1].open THEN m.state.layers[1].nextPattern
                    ELSE m.state.layers[1].prePattern,
                    m.state.layers[1].pos + Length(m.state.layers[1].matched))
    ELSE delegate(m, -1)

\* token (index.ts 351-392)
token(parserConfig, m0) ==
    tokenScanned(Patterns[parserConfig],
        IF ~m0.state.start \/ m0.stream.pos = 0
        THEN scanned(m0, createLayers(parserConfig, m0.state, m0.stream.string,
                                      m0.stream.start))
        ELSE m0)

(***************************************************************************)
(* The mode object (index.ts 458-508) and its host.                        *)
(***************************************************************************)

\* The bounds of the model.
MaxDocs == 2     \* tokenizer states the host holds at a time
MaxLines == 3    \* lines the host tokenizes in a run over documents
MaxLen == 3      \* length of the lines and texts that are enumerated

DocIds == 1 .. MaxDocs

\* initialStateContext (index.ts 460-464): the base mode's context, built
\* once when the mode object is built, its state object at address 1; null
\* when there is no base mode.
initialStateContext(parserConfig) ==
    IF finalParserConfig(parserConfig).root.mode # "null"
    THEN <<[mode |-> finalParserConfig(parserConfig).root.mode, state |-> 1]>>
    ELSE <<>>

\* The heap once the mode object is built: the state object
\* CodeMirror.startState(baseModeObj) made (index.ts 463), if any.
initialHeap(parserConfig) ==
    IF initialStateContext(parserConfig) # <<>> THEN <<0>> ELSE <<>>

\* startState (index.ts 468-481).  layers is absent until the first token
\* call; absent and empty read alike (index.ts 300, 334, 357, 485).
startState(parserConfig) ==
    [textBefore |-> <<>>,
     patternContext |-> <<"root">>,
     stateContext |-> initialStateContext(parserConfig),
     useRoot |-> FALSE,
     start |-> FALSE,
     layers |-> <<>>,
     customs |-> [justExitTemplate |-> "undefined", trace |-> <<>>]]

\* copyPatternContext (index.ts 394-402): new links to the same patterns
copyPatternContext(context) == [k \in 1 .. Len(context) |-> context[k]]

\* copyStateContext gone wrong: the stack is handed over as it is, state
\* objects included.
copyStateContextShares(context, heap) == [context |-> context, heap |-> heap]

\* copyStateContext (index.ts 404-411): the copy of the stack, and the heap
\* with the objects CodeMirror.copyState made, the deepest context first.
RECURSIVE copyStateContext(_, _)
copyStateContext(context, heap) ==
    IF context = <<>> THEN [context |-> <<>>, heap |-> heap]
    ELSE LET pre == copyStateContext(Tail(context), heap)
             top == Head(context)
             a   == alloc(pre.heap)
         IN  IF top.state = TRUE_STATE
             THEN [context |-> <<top>> \o pre.context, heap |-> pre.heap]
             ELSE [context |-> <<[mode |-> top.mode, state |-> a]>> \o pre.context,
                   heap |-> [x \in DOMAIN pre.heap \cup {a} |->
                                IF x = a THEN heap[top.state] ELSE pre.heap[x]]]

\* copyState gone wrong: a shallow copy, the stacks and the state objects
\* of the sub-modes shared with the original.
copyStateShallow(state, heap) == [state |-> state, heap |-> heap]

\* copyState (index.ts 482-490): the copy and the heap after it.  The
\* spread keeps textBefore, useRoot and start; cloneDeep copies customs.
copyState(state, heap) ==
    LET c == copyStateContext(state.stateContext, heap)
    IN  [state |-> [state EXCEPT !.layers = [k \in 1 .. Len(state.layers) |-> state.layers[k]],
                                 !.patternContext = copyPatternContext(state.patternContext),
                                 !.stateContext = c.context,
                                 !.customs = [justExitTemplate |-> @.justExitTemplate,
                                              trace |-> [k \in 1 .. Len(@.trace) |->
                                                            @.trace[k]]]],
         heap |-> c.heap]

(***************************************************************************)
(* The lines the host feeds.                                               *)
(***************************************************************************)

\* All texts over alphabet of length 1 .. n
RECURSIVE Texts(_, _)
Texts(alphabet, n) ==
    IF n = 0 THEN {}
    ELSE LET shorter == Texts(alphabet, n - 1)
         IN  {<<c>> : c \in alphabet} \cup shorter
             \cup {t \o <<c>> : t \in shorter, c \in alphabet}

\* "where #[if][#{x==1}][a=1][a=0]"
LineEndToEnd ==
    <<"w", "h", "e", "r", "e", " ", "#", "[", "i", "f", "]", "[", "#", "{", "x", "=", "=",
      "1", "}", "]", "[", "a", "=", "1", "]", "[", "a", "=", "0", "]">>

\* "(a[b{c}]d)"
LineNested == <<"(", "a", "[", "b", "{", "c", "}", "]", "d", ")">>

\* Lines whose parentheses, brackets and braces are nested and balanced.
BalancedLines == {LineNested, <<"[", "a", "]">>}

\* "a\\" in double quotes: a closing quote after an escaped escape
LineEscapedEscape == <<"\"", "a", "\\", "\\", "\"">>

\* The lines of a run over documents, by grammar.
DocumentLines(parserConfig) ==
    CASE parserConfig = "default" ->
            BalancedLines \cup
            {<<"#", "[", "i", "f">>,           \* ends inside the flag header
             <<"#", "[", "]", " ", "[", "a">>, \* ends inside a template
             <<"b", " ", "#", "{", " ", ":">>, \* ends inside a code region
             <<"#", "[", "]", "'", "'", "[">>} \* "[" after a quoted text
      [] parserConfig = "custom" ->
            {<<"a">>, <<"c", "b", "b", "b">>, <<"d", " ", "a", "e", "b", "c">>}
      [] OTHER -> {<<"#", "[", "]", " ", "[", "a">>}

\* Longer lines of a run over one line, by grammar.
LongLines(parserConfig) ==
    CASE parserConfig = "default" -> {LineEndToEnd, LineNested, LineEscapedEscape}
      [] parserConfig = "custom" -> {<<"d", " ", "a", "e", "b", "c", "b", "b">>,
                                     <<"a", "b", "w", "w", "b">>}
      [] OTHER -> {LineEndToEnd}

\* The lines of a run over one line, by grammar: every short line over the
\* characters the grammar's matchers look at, and one more character.
LineAlphabet(parserConfig) ==
    CASE parserConfig = "default" -> {"#", "[", "]", "{", "}", "\"", "\\", " ", "a"}
      [] parserConfig = "custom" -> {"a", "b", "c", "e", "x", "w"}
      [] OTHER -> {"#", "[", "]", "{", "a"}

(***************************************************************************)
(* The state machine.  The host (CodeMirror) builds the mode object from   *)
(* a parserConfig, asks it for tokenizer states (startState, copyState),   *)
(* drops states, and tokenizes a line by calling token until the stream    *)
(* is at the end of the line; a line is tokenized to its end before        *)
(* anything else happens (the host is single-threaded).                    *)
(***************************************************************************)

VARIABLES
    parserConfig,   \* the parserConfig the mode object was built from
    live,           \* the tokenizer states the host holds
    docs,           \* docs[d]: the tokenizer state d (ITemplateState)
    heap,           \* the state objects of the sub-modes
    cur,            \* the state whose line is being tokenized, 0 if none
    stream,         \* the stream of that line: [string, pos, start]
    lines,          \* lines begun so far
    info,           \* info[d]: what is recorded about d for the properties
    call,           \* a call of the matcher: its arguments
    result          \* and its result

vars == <<parserConfig, live, docs, heap, cur, stream, lines, info, call, result>>

NoStream == [string |-> <<>>, pos |-> 0, start |-> 0]

\* The state with the objects of its embedded-mode-state stack read out.
Resolved(state, h) ==
    [state EXCEPT !.stateContext =
        [k \in 1 .. Len(state.stateContext) |->
            [mode |-> state.stateContext[k].mode,
             value |-> IF state.stateContext[k].state = TRUE_STATE THEN 0
                       ELSE h[state.stateContext[k].state]]]]

\* info[d]: how d was made ("start", "copy"), the state it was copied from
\* (0 if none, or dropped since) and that state as it was then, the lines
\* begun on d since, the line being or last tokenized, whether that line
\* is finished, the last layer scan, the tokens of the line as <<from, to,
\* style>>, and the error thrown; and the history of the transitions: the
\* last transition of all the scans so far as <<open, pattern>> (<<>> if
\* none) and the text met since, line ends included, both also as they
\* were before the last scan.
NoInfo ==
    [born |-> "none", copyOf |-> 0, origin |-> Resolved(startState("default"), <<0>>), nlines |-> 0,
     line |-> <<>>, done |-> FALSE, scan |-> NoScan, log |-> <<>>, error |-> "none",
     last |-> <<>>, since |-> <<>>, lastBefore |-> <<>>, sinceBefore |-> <<>>]

\* The addresses the states hold, state by state and from the bottom of
\* each stack.
RECURSIVE Held(_, _, _)
Held(ds, lv, d) ==
    IF d > MaxDocs THEN <<>>
    ELSE (IF d \in lv
          THEN [k \in 1 .. Len(ds[d].stateContext) |->
                    ds[d].stateContext[Len(ds[d].stateContext) + 1 - k].state]
          ELSE <<>>) \o Held(ds, lv, d + 1)

\* seq without TRUE_STATE and without repetitions
RECURSIVE Distinct(_, _)
Distinct(seq, seen) ==
    IF seq = <<>> THEN seen
    ELSE IF Head(seq) = TRUE_STATE \/ \E k \in 1 .. Len(seen) : seen[k] = Head(seq)
    THEN Distinct(Tail(seq), seen)
    ELSE Distinct(Tail(seq), Append(seen, Head(seq)))

\* The garbage collector: the objects that neither the mode object (its
\* initialStateContext) nor a state holds leave the heap, and the others
\* are moved to the addresses 1, 2, ..., the mode object's first, then in
\* the order of Held.
\* An address is only ever compared with another, so moving every object
\* and every reference to it changes nothing the program can see.
Collect(h, ds, lv) ==
    LET kept == Distinct([k \in 1 .. Len(initialStateContext(parserConfig)) |->
                            initialStateContext(parserConfig)[k].state]
                         \o Held(ds, lv, 1), <<>>)
        to(a) == IF a = TRUE_STATE THEN a
                 ELSE CHOOSE k \in 1 .. Len(kept) : kept[k] = a
    IN  [heap |-> [k \in 1 .. Len(kept) |-> h[kept[k]]],
         docs |-> [d \in DocIds |->
                    IF d \in lv
                    THEN [ds[d] EXCEPT !.stateContext =
                            [k \in 1 .. Len(ds[d].stateContext) |->
                                [mode |-> ds[d].stateContext[k].mode,
                                 state |-> to(ds[d].stateContext[k].state)]]]
                    ELSE ds[d]]]

Init ==
    /\ parserConfig \in ParserConfigs
    /\ live = {}
    /\ docs = [d \in DocIds |-> startState(parserConfig)]
    /\ heap = initialHeap(parserConfig)
    /\ cur = 0
    /\ stream = NoStream
    /\ lines = 0
    /\ info = [d \in DocIds |-> NoInfo]
    /\ call = [op |-> "none"]
    /\ result = <<-1, NULL>>

\* modeObj.startState(), kept as d, the first free place of the host
StartState(d) ==
    /\ cur = 0 /\ d \notin live /\ d = SetMin(DocIds \ live)
    /\ live' = live \cup {d}
    /\ docs' = [docs EXCEPT ![d] = startState(parserConfig)]
    /\ info' = [info EXCEPT ![d] = [NoInfo EXCEPT !.born = "start"]]
    /\ UNCHANGED <<parserConfig, heap, cur, stream, lines, call, result>>

\* modeObj.copyState(docs[s]), kept as d
CopyState(s, d) ==
    /\ cur = 0
    /\ s \in live /\ d \notin live /\ d = SetMin(DocIds \ live)
    /\ info[s].error = "none"
    /\ live' = live \cup {d}
    /\ LET c == copyState(docs[s], heap)
           g == Collect(c.heap, [docs EXCEPT ![d] = c.state], live')
       IN  docs' = g.docs /\ heap' = g.heap
    /\ info' = [info EXCEPT ![d] = [NoInfo EXCEPT !.born = "copy", !.copyOf = s,
                                                  !.origin = Resolved(docs[s], heap),
                                                  !.last = info[s].last,
                                                  !.since = info[s].since]]
    /\ UNCHANGED <<parserConfig, cur, stream, lines, call, result>>

\* The host drops the state d to make room.
Discard(d) ==
    /\ cur = 0
    /\ d \in live /\ live = DocIds
    /\ live' = live \ {d}
    /\ LET g == Collect(heap, [docs EXCEPT ![d] = startState(parserConfig)], live')
       IN  docs' = g.docs /\ heap' = g.heap
    /\ info' = [e \in DocIds |->
                    IF e = d THEN NoInfo
                    ELSE IF info[e].copyOf = d THEN [info[e] EXCEPT !.copyOf = 0]
                    ELSE info[e]]
    /\ UNCHANGED <<parserConfig, cur, stream, lines, call, result>>

\* One call of modeObj.token (index.ts 467) by the host, which has set
\* stream.start to stream.pos: the machine after the call.
hostCall(config, state, h, strm) ==
    token(config, [state |-> state, stream |-> [strm EXCEPT !.start = strm.pos], heap |-> h,
                   style |-> "null", error |-> "none", scan |-> NoScan])

\* The last transition after a scan, last being the one before it.
LastAfter(last, scan) ==
    IF scan.layers = <<>> THEN last
    ELSE <<scan.layers[Len(scan.layers)].open,
           IF scan.layers[Len(scan.layers)].open
           THEN scan.layers[Len(scan.layers)].nextPattern
           ELSE scan.layers[Len(scan.layers)].prePattern>>

\* The text since the last transition after a scan, since being the text
\* before it.
SinceAfter(since, scan) ==
    IF scan.layers = <<>> THEN since \o slice(scan.line, scan.offset, Len(scan.line)) \o <<"\n">>
    ELSE slice(scan.line,
               scan.layers[Len(scan.layers)].pos + Length(scan.layers[Len(scan.layers)].matched),
               Len(scan.line)) \o <<"\n">>

\* What a call adds to info[d], strm being the stream before the call and
\* m the machine after it.
Recorded(i, strm, m) ==
    [i EXCEPT !.error = m.error,
              !.log = IF m.error = "none"
                      THEN Append(@, <<strm.pos, m.stream.pos, m.style>>)
                      ELSE @,
              !.scan = IF m.scan # NoScan THEN m.scan ELSE @,
              !.lastBefore = IF m.scan # NoScan THEN i.last ELSE @,
              !.sinceBefore = IF m.scan # NoScan THEN i.since ELSE @,
              !.last = IF m.scan # NoScan THEN LastAfter(@, m.scan) ELSE @,
              !.since = IF m.scan # NoScan THEN SinceAfter(@, m.scan) ELSE @]

\* The host's loop over a line (CodeMirror's processLine): token calls
\* until the stream is at the end of the line or a call throws.  The host
\* throws when a call leaves the stream where it was ten times in a row.
RECURSIVE processLine(_, _, _, _, _, _)
RECURSIVE processLineCalled(_, _, _, _, _)
processLineCalled(config, strm, i, idle, m) ==
    processLine(config, m.state, m.heap, m.stream, Recorded(i, strm, m),
                IF m.stream.pos = strm.pos THEN idle + 1 ELSE 0)

processLine(config, state, h, strm, i, idle) ==
    IF eol(strm) \/ i.error # "none" THEN [state |-> state, heap |-> h, info |-> i]
    ELSE IF idle = 10 THEN [state |-> state, heap |-> h,
                            info |-> [i EXCEPT !.error = "failed to advance stream"]]
    ELSE processLineCalled(config, strm, i, idle, hostCall(config, state, h, strm))

\* The state d and the heap after the token calls of a line, r being what
\* processLine returned.
LineProcessed(d, r) ==
    LET g == Collect(r.heap, [docs EXCEPT ![d] = r.state], live)
    IN  /\ docs' = g.docs
        /\ heap' = g.heap
        /\ info' = [info EXCEPT ![d] = r.info]

\* The host tokenizes a line with the state d: new StringStream(line) and
\* the loop.  An empty line gets no token call (the mode has no blankLine).
ProcessLine(d, line) ==
    /\ cur = 0
    /\ d \in live /\ info[d].error = "none"
    /\ lines < MaxLines
    /\ lines' = lines + 1
    /\ LineProcessed(d, processLine(parserConfig, docs[d], heap,
                            [string |-> line, pos |-> 0, start |-> 0],
                            [info[d] EXCEPT !.nlines = @ + 1, !.line = line,
                                            !.done = TRUE, !.log = <<>>], 0))
    /\ UNCHANGED <<parserConfig, live, cur, stream, call, result>>

Next ==
    \/ \E d \in DocIds : StartState(d)
    \/ \E s, d \in DocIds : CopyState(s, d)
    \/ \E d \in DocIds : Discard(d)
    \/ \E d \in DocIds : \E line \in DocumentLines(parserConfig) : ProcessLine(d, line)

\* Runs over documents: several states, the lines of DocumentLines, each
\* line tokenized to its end in one step.
Spec == Init /\ [][Next]_vars

(***************************************************************************)
(* Runs over one line: a fresh state tokenizes one line, any of the short  *)
(* lines over LineAlphabet or one of LongLines, one token call a step.     *)
(***************************************************************************)

ShortLines == [c \in ParserConfigs |-> Texts(LineAlphabet(c), MaxLen) \cup LongLines(c)]

\* modeObj.startState() and new StringStream(line)
StartLine(line) ==
    /\ live = {}
    /\ live' = {1}
    /\ docs' = [docs EXCEPT ![1] = startState(parserConfig)]
    /\ cur' = 1
    /\ stream' = [string |-> line, pos |-> 0, start |-> 0]
    /\ lines' = lines + 1
    /\ info' = [info EXCEPT ![1] = [NoInfo EXCEPT !.born = "start", !.nlines = 1,
                                                 !.line = line]]
    /\ UNCHANGED <<parserConfig, heap, call, result>>

\* The state cur, the heap and the stream after a token call, m being the
\* machine after it.
TokenReturned(m) ==
    LET g == Collect(m.heap, [docs EXCEPT ![cur] = m.state], live)
    IN  /\ docs' = g.docs
        /\ heap' = g.heap
        /\ stream' = m.stream
        /\ info' = [info EXCEPT ![cur] = Recorded(@, stream, m)]

\* One token call of the host's loop.
TokenCall ==
    /\ cur # 0 /\ ~eol(stream) /\ info[cur].error = "none"
    /\ TokenReturned(hostCall(parserConfig, docs[cur], heap, stream))
    /\ UNCHANGED <<parserConfig, live, cur, lines, call, result>>

\* The line is finished: the stream is at its end, or token threw.
EndLine ==
    /\ cur # 0 /\ (eol(stream) \/ info[cur].error # "none")
    /\ cur' = 0
    /\ stream' = NoStream
    /\ info' = [info EXCEPT ![cur] = [@ EXCEPT !.done = TRUE]]
    /\ UNCHANGED <<parserConfig, live, docs, heap, lines, call, result>>

NextLine ==
    \/ live = {} /\ \E line \in ShortLines[parserConfig] : StartLine(line)
    \/ TokenCall
    \/ EndLine

SpecLine == Init /\ [][NextLine]_vars

(***************************************************************************)
(* Runs of the matcher alone: one call of match or matchWithEscape on a    *)
(* line over MatchAlphabet, at any position of the line, with the          *)
(* delimiters and escapes below.  call is the call made and result what    *)
(* it returned.                                                            *)
(***************************************************************************)

MatchAlphabet == {"a", "x", "e", "$"}

MatchLines == {<<>>} \cup Texts(MatchAlphabet, MaxLen)

\* Delimiters: "x", "xx", /x/, /x$/, /^x/, /a|x/, /\$/, /xa?/, and /x*/,
\* which matches the empty text where there is no x
MatchPatterns ==
    {Str(<<"x">>), Str(<<"x", "x">>), Reg(<<"x">>, <<>>), Reg(<<"x", "$">>, <<>>),
     Reg(<<"^", "x">>, <<"g">>), Reg(<<"a", "|", "x">>, <<>>), Reg(<<"\\", "$">>, <<>>),
     Reg(<<"x", "a", "?">>, <<"g">>), Reg(<<"x", "*">>, <<>>)}

\* Escapes: none, "e", "ee", /e/
MatchEscapes == {None, Str(<<"e">>), Str(<<"e", "e">>), Reg(<<"e">>, <<>>)}

\* A state for the callers of match: no matcher of these runs reads it.
MatchState == startState("default")

Match(mode) ==
    /\ call.op = "none"
    /\ \E line \in MatchLines : \E position \in 0 .. Len(line) : \E pattern \in MatchPatterns :
        /\ call' = [op |-> "match", line |-> line, position |-> position, mode |-> mode,
                    pattern |-> pattern, escape |-> None]
        /\ result' = match(line, position, mode, pattern, MatchState)
    /\ UNCHANGED <<parserConfig, live, docs, heap, cur, stream, lines, info>>

MatchWithEscape ==
    /\ call.op = "none"
    /\ \E line \in MatchLines : \E position \in 0 .. Len(line) :
       \E pattern \in MatchPatterns : \E escape \in MatchEscapes :
        /\ call' = [op |-> "matchWithEscape", line |-> line, position |-> position,
                    mode |-> MatchMode.DEFAULT, pattern |-> pattern, escape |-> escape]
        /\ result' = matchWithEscape(line, position, pattern, escape, MatchState)
    /\ UNCHANGED <<parserConfig, live, docs, heap, cur, stream, lines, info>>

NextMatch ==
    \/ Match(MatchMode.DEFAULT)
    \/ Match(MatchMode.PREFIX)
    \/ MatchWithEscape

SpecMatch == Init /\ [][NextMatch]_vars

(***************************************************************************)
(* Properties of the matcher, over the runs of SpecMatch.                  *)
(***************************************************************************)

\* The escape occurs in line right before position pos: a literal escape
\* is the text that ends at pos, an expression escape matches some text
\* that ends at pos.
EscapedAt(line, pos, escape) ==
    CASE escape.kind = "none" -> FALSE
      [] escape.kind = "string" ->
            /\ pos >= Len(escape.text)
            /\ SubSeq(line, pos - Len(escape.text) + 1, pos) = escape.text
      [] OTHER ->
            LET alts == RegExpParse(escape.source, 1, <<>>, <<>>).alts
                before == SubSeq(line, 1, pos)
            IN  \E i \in 0 .. pos : \E n \in 1 .. Len(alts) :
                    MatchAtoms(Append(alts[n], Atom("eol", "$")), 1, before, i) # -1

\* The occurrences of the delimiter a forward search meets from position
\* on, each search resuming right after the occurrence before: <<pos,
\* matched>> in order.  An occurrence of no length is the last one: the
\* search that resumes after it meets it again.
RECURSIVE Occurrences(_, _, _)
Occurrences(line, position, pattern) ==
    LET m == match(line, position, MatchMode.DEFAULT, pattern, MatchState)
    IN  IF m[1] < 0 THEN <<>>
        ELSE IF Len(m[2]) = 0 THEN <<m>>
        ELSE <<m>> \o Occurrences(line, m[1] + Len(m[2]), pattern)

\* The first of the occurrences that is not escaped, or <<-1, NULL>>.
FirstUnescaped(line, occurrences, escape) ==
    LET free == {k \in 1 .. Len(occurrences) : ~EscapedAt(line, occurrences[k][1], escape)}
    IN  IF free = {} THEN <<-1, NULL>> ELSE occurrences[SetMin(free)]

\* C5: matchWithEscape never returns an occurrence of the delimiter that
\* the escape precedes: when it returns, it returns the first occurrence
\* from position on that is not escaped, each escaped one being skipped
\* and the search resumed right after it, and <<-1, NULL>> when every
\* occurrence is escaped (or there is none).
C5_EscapedOccurrencesAreSkipped ==
    (call.op = "matchWithEscape" /\ result[1] # THROWN /\ result[1] # HANGS) =>
        /\ result = FirstUnescaped(call.line,
                        Occurrences(call.line, call.position, call.pattern), call.escape)
        /\ result[1] >= 0 => ~EscapedAt(call.line, result[1], call.escape)

\* C5, its case: the first occurrence is escaped and a later one is
\* returned.
C5_Witness_SkippedThenFound ==
    /\ call.op = "matchWithEscape"
    /\ call.escape # None
    /\ result[1] >= 0
    /\ LET first == match(call.line, call.position, MatchMode.DEFAULT, call.pattern, MatchState)
       IN  first[1] >= 0 /\ first[1] < result[1]
           /\ EscapedAt(call.line, first[1], call.escape)

\* C13: every call of matchWithEscape returns, for a literal delimiter
\* and for an expression, one that matches the empty text included: its
\* loop comes to an exit because each round either stops or resumes the
\* search strictly after the position of the round before.
C13_MatchWithEscapeReturns ==
    call.op = "matchWithEscape" => result[1] # HANGS

\* C8: a forward search (MatchMode.DEFAULT) for the expression /x$/ finds
\* only an x that ends the line.
C8_DollarMatchesOnlyAtLineEnd ==
    (/\ call.op = "match"
     /\ call.mode = MatchMode.DEFAULT
     /\ call.pattern = Reg(<<"x", "$">>, <<>>)
     /\ result[1] >= 0) => result[1] + Len(result[2]) = Len(call.line)

\* C9: a suffix check (MatchMode.PREFIX) with an expression either
\* reports a match that ends at position or returns <<-1, NULL>>.
C9_SuffixMatchEndsAtPosition ==
    (/\ call.op = "match"
     /\ call.mode = MatchMode.PREFIX
     /\ call.pattern.kind = "regexp") =>
        IF result[1] >= 0 THEN result[1] + Len(result[2]) = call.position
        ELSE result = <<-1, NULL>>

(***************************************************************************)
(* Properties of the layer scanner, over the scans info[d].scan records.   *)
(***************************************************************************)

\* The pattern-context stack the scan had before its k-th layer, and the
\* offset it searched from.
StackBefore(scan, k) == IF k = 1 THEN scan.entry ELSE scan.stacks[k - 1]

OffsetBefore(scan, k) ==
    IF k = 1 THEN scan.offset
    ELSE scan.layers[k - 1].pos + Length(scan.layers[k - 1].matched)

\* The stack the scan ended with.
StackAfter(scan) ==
    IF scan.layers = <<>> THEN scan.entry ELSE scan.stacks[Len(scan.stacks)]

\* Where the closer of the current pattern matches (escape-aware) before
\* the k-th layer, -1 if it has none or it does not match.
CloserPos(scan, k) ==
    LET pattern == Patterns[parserConfig][Head(StackBefore(scan, k))]
    IN  IF pattern.close.kind = "none" THEN -1
        ELSE matchWithEscape(scan.line, OffsetBefore(scan, k), pattern.close,
                             pattern.escape, MatchState)[1]

\* Where the openers of its children match (escape-aware).
OpenerPositions(scan, k) ==
    LET pattern == Patterns[parserConfig][Head(StackBefore(scan, k))]
    IN  {matchWithEscape(scan.line, OffsetBefore(scan, k),
                         Patterns[parserConfig][pattern.children[c]].open,
                         pattern.escape, MatchState)[1] :
            c \in {c \in 1 .. Len(pattern.children) :
                    Patterns[parserConfig][pattern.children[c]].open.kind # "none"}}
        \ {-1}

\* The match (escape-aware) of the opener of the c-th child of the
\* current pattern before the k-th layer; <<-1, NULL>> if it has no open.
OpenerMatch(scan, k, c) ==
    LET pattern == Patterns[parserConfig][Head(StackBefore(scan, k))]
    IN  IF Patterns[parserConfig][pattern.children[c]].open.kind = "none" THEN <<-1, NULL>>
        ELSE matchWithEscape(scan.line, OffsetBefore(scan, k),
                             Patterns[parserConfig][pattern.children[c]].open,
                             pattern.escape, MatchState)

\* The children (by place in the children list) whose openers match at
\* the earliest position an opener matches at.
EarliestChildren(scan, k) ==
    LET n == Len(Patterns[parserConfig][Head(StackBefore(scan, k))].children)
    IN  {c \in 1 .. n :
            /\ OpenerMatch(scan, k, c)[1] >= 0
            /\ \A b \in 1 .. n :
                    OpenerMatch(scan, k, b)[1] >= 0 =>
                        OpenerMatch(scan, k, c)[1] <= OpenerMatch(scan, k, b)[1]}

\* Several openers match at the earliest position, before the closer; no
\* opener is a callback, which would read the state.
SeveralEarliest(scan, k) ==
    /\ \A c \in 1 .. Len(Patterns[parserConfig][Head(StackBefore(scan, k))].children) :
            Patterns[parserConfig][Patterns[parserConfig][Head(StackBefore(scan, k))]
                                        .children[c]].open.kind # "function"
    /\ Cardinality(EarliestChildren(scan, k)) >= 2
    /\ \/ CloserPos(scan, k) < 0
       \/ OpenerMatch(scan, k, SetMin(EarliestChildren(scan, k)))[1] < CloserPos(scan, k)

\* C17: when the openers of several children match at the same earliest
\* position, before the closer, the layer opens the one of them that is
\* declared first in the children list, with the text its opener matched,
\* be it shorter or longer than the others'.
C17_FirstDeclaredChildWins ==
    \A d \in DocIds : \A k \in 1 .. Len(info[d].scan.layers) :
        SeveralEarliest(info[d].scan, k) =>
            LET first == SetMin(EarliestChildren(info[d].scan, k))
                layer == info[d].scan.layers[k]
            IN  /\ layer.open
                /\ layer.nextPattern =
                        Patterns[parserConfig][Head(StackBefore(info[d].scan, k))].children[first]
                /\ layer.pos = OpenerMatch(info[d].scan, k, first)[1]
                /\ layer.matched = OpenerMatch(info[d].scan, k, first)[2]

\* C17, its case: two openers matched at the earliest position, and the
\* child declared first, whose match is the longer one, was entered.
C17_Witness_FirstIsLonger ==
    \E d \in DocIds : \E k \in 1 .. Len(info[d].scan.layers) :
        /\ SeveralEarliest(info[d].scan, k)
        /\ info[d].scan.layers[k].open
        /\ \E c \in EarliestChildren(info[d].scan, k) :
                Len(OpenerMatch(info[d].scan, k, c)[2]) < Len(info[d].scan.layers[k].matched)

\* The closer and an opener match at the same position, and no opener
\* matches before it.
Tie(scan, k) ==
    /\ CloserPos(scan, k) >= 0
    /\ CloserPos(scan, k) \in OpenerPositions(scan, k)
    /\ \A p \in OpenerPositions(scan, k) : p >= CloserPos(scan, k)

\* C1: in createLayers, when the closer of the current pattern and the
\* opener of one of its children match at the same position, the layer
\* recorded is a closing one at that position and the pattern-context
\* stack is popped; an opening layer lies strictly before the position
\* where the closer matches.
C1_CloserWinsTie ==
    \A d \in DocIds : \A k \in 1 .. Len(info[d].scan.layers) :
        LET scan == info[d].scan
            layer == scan.layers[k]
        IN  /\ Tie(scan, k) =>
                /\ ~layer.open
                /\ layer.pos = CloserPos(scan, k)
                /\ scan.stacks[k] = Tail(StackBefore(scan, k))
            /\ (layer.open /\ CloserPos(scan, k) >= 0) => layer.pos < CloserPos(scan, k)

\* C1, its case: a scan met a tie.
C1_Witness_Tie ==
    \E d \in DocIds : \E k \in 1 .. Len(info[d].scan.layers) :
        Tie(info[d].scan, k) /\ ~info[d].scan.layers[k].open

\* The line opens with a double quote, and position p holds a double quote
\* right after two backslashes, with neither character in between.
QuoteAfterEscapedEscape(line, p) ==
    /\ p >= 3 /\ p < Len(line)
    /\ line[1] = "\"" /\ line[p + 1] = "\""
    /\ line[p] = "\\" /\ line[p - 1] = "\\"
    /\ \A k \in 2 .. p - 2 : line[k] \notin {"\"", "\\"}

\* C6: in a double-quoted region of the default grammar, a closing quote
\* that follows an escaped escape is recognised: the scan records a
\* closing layer of the region at its position.
C6_EscapedEscapeDoesNotEscape ==
    \A d \in DocIds : \A p \in 0 .. Len(info[d].scan.line) :
        LET scan == info[d].scan
        IN  (/\ parserConfig = "default"
             /\ scan.entry = <<"root">> /\ scan.offset = 0
             /\ QuoteAfterEscapedEscape(scan.line, p)) =>
                \E k \in 1 .. Len(scan.layers) :
                    /\ scan.layers[k].pos = p
                    /\ ~scan.layers[k].open
                    /\ scan.layers[k].prePattern = "doubleQuote"

Opens(scan) == Cardinality({k \in 1 .. Len(scan.layers) : scan.layers[k].open})

Closes(scan) == Cardinality({k \in 1 .. Len(scan.layers) : ~scan.layers[k].open})

\* The scan of a balanced line left the pattern-context stack with the
\* depth and the top it had, and found as many openings as closings.
RoundTrip(scan) ==
    /\ Len(StackAfter(scan)) = Len(scan.entry)
    /\ Head(StackAfter(scan)) = Head(scan.entry)
    /\ Opens(scan) = Closes(scan)

\* A scan of a whole balanced line under the default grammar.
BalancedScan(scan) ==
    parserConfig = "default" /\ scan.line \in BalancedLines /\ scan.offset = 0

LayerList(scan) ==
    [k \in 1 .. Len(scan.layers) |->
        <<scan.layers[k].pos, scan.layers[k].matched, scan.layers[k].open,
          IF scan.layers[k].open THEN scan.layers[k].nextPattern
          ELSE scan.layers[k].prePattern>>]

\* The tokens of log that do not carry a style of the sub-modes "base"
\* and "code".
SubModeStyles == {"null", "base even", "base odd", "code even", "code odd"}

RECURSIVE Delimiters(_)
Delimiters(log) ==
    IF log = <<>> THEN <<>>
    ELSE IF Head(log)[3] \in SubModeStyles THEN Delimiters(Tail(log))
    ELSE <<Head(log)>> \o Delimiters(Tail(log))

\* The tokens of log cover the positions from .. to without a gap.
RECURSIVE Covers(_, _, _)
Covers(log, from, to) ==
    IF log = <<>> THEN from = to
    ELSE Head(log)[1] = from /\ Head(log)[2] > from /\ Covers(Tail(log), Head(log)[2], to)

\* C10: under the default grammar, from a fresh state, the line
\* "where #[if][#{x==1}][a=1][a=0]" gives plain text for "where ", the
\* flag header's "#[" and "]" around the keyword "if", then "[", "#{",
\* "}", "]" of a template and a code region around "x==1", then "[" and
\* "]" of a template around "a=1" and of another around "a=0"; at the end
\* of the line the pattern-context stack is back at the root.
C10_EndToEnd ==
    \A d \in DocIds :
        (/\ parserConfig = "default"
         /\ info[d].born = "start" /\ info[d].nlines = 1
         /\ info[d].line = LineEndToEnd /\ info[d].done) =>
            /\ info[d].error = "none"
            /\ info[d].scan.entry = <<"root">> /\ info[d].scan.offset = 0
            /\ LayerList(info[d].scan) =
                    << <<6, <<"#", "[">>, TRUE, "templateHeader">>,
                       <<10, <<"]">>, FALSE, "templateHeader">>,
                       <<11, <<"[">>, TRUE, "template">>,
                       <<12, <<"#", "{">>, TRUE, "code">>,
                       <<18, <<"}">>, FALSE, "code">>,
                       <<19, <<"]">>, FALSE, "template">>,
                       <<20, <<"[">>, TRUE, "template">>,
                       <<24, <<"]">>, FALSE, "template">>,
                       <<25, <<"[">>, TRUE, "template">>,
                       <<29, <<"]">>, FALSE, "template">> >>
            /\ Covers(info[d].log, 0, Len(LineEndToEnd))
            /\ \A k \in 1 .. Len(info[d].log) :
                    info[d].log[k][1] < 6 => info[d].log[k][3] \in {"null", "base even"}
            /\ Delimiters(info[d].log) =
                    << <<6, 8, "bracket cxj-template cxj-template-flag open">>,
                       <<8, 10, "keyword cxj-template-flag-keyword cxj-template-flag-keyword-if">>,
                       <<10, 11, "bracket cxj-template cxj-template-flag close">>,
                       <<11, 12, "bracket cxj-template open">>,
                       <<12, 14, "bracket cxj-code open">>,
                       <<18, 19, "bracket cxj-code close">>,
                       <<19, 20, "bracket cxj-template close">>,
                       <<20, 21, "bracket cxj-template open">>,
                       <<24, 25, "bracket cxj-template close">>,
                       <<25, 26, "bracket cxj-template open">>,
                       <<29, 30, "bracket cxj-template close">> >>
            /\ \A k \in 1 .. Len(info[d].log) :
                    (info[d].log[k][1] >= 14 /\ info[d].log[k][2] <= 18) =>
                        info[d].log[k][3] \in {"code even", "code odd"}
            /\ docs[d].patternContext = <<"root">>
            /\ Len(docs[d].stateContext) = 1 /\ docs[d].stateContext[1].mode = "base"

\* C10, its case: the line has been tokenized to its end.
C10_Witness_LineDone ==
    \E d \in DocIds :
        /\ parserConfig = "default"
        /\ info[d].born = "start" /\ info[d].nlines = 1
        /\ info[d].line = LineEndToEnd /\ info[d].done
        /\ Len(info[d].log) = 19

(***************************************************************************)
(* Properties of the tokenizer states, over the runs of Spec.              *)
(***************************************************************************)

\* What a state holds besides textBefore and its flags: the
\* pattern-context stack, the embedded-mode-state stack with the state of
\* each sub-mode, the pending layers and customs.
View(d) ==
    LET r == Resolved(docs[d], heap)
    IN  [patternContext |-> r.patternContext, stateContext |-> r.stateContext,
         layers |-> r.layers, customs |-> r.customs]

\* d and e are both copies of one saved state, and each has tokenized one
\* and the same line since.
SameLineFromSameState(d, e) ==
    /\ d \in live /\ e \in live /\ d # e
    /\ info[d].born = "copy" /\ info[e].born = "copy"
    /\ info[d].origin = info[e].origin
    /\ info[d].nlines = 1 /\ info[e].nlines = 1
    /\ info[d].done /\ info[e].done
    /\ info[d].line = info[e].line

\* C2: two copies (copyState) of one saved state that tokenize the same
\* line give the same layers (positions, matched texts, directions,
\* patterns) and the same tokens (boundaries and styles).
C2_SameLineSameResult ==
    \A d, e \in DocIds :
        SameLineFromSameState(d, e) =>
            /\ info[d].scan = info[e].scan
            /\ info[d].log = info[e].log
            /\ info[d].error = info[e].error

\* C2, its case: two copies of a state saved after a line have tokenized
\* the same next line, which has layers.
C2_Witness_TwoCopiesOneLine ==
    \E d, e \in DocIds :
        /\ SameLineFromSameState(d, e)
        /\ info[d].origin.start
        /\ info[d].scan.layers # <<>>
        /\ Len(info[d].log) >= 2

\* d has tokenized a line in this step.
Tokenized(d) == info'[d].nlines = info[d].nlines + 1

\* C3: after s' = copyState(s), the token calls of a line on s' leave the
\* pattern-context stack, the embedded-mode-state stack with its sub-mode
\* states, the pending layers and customs of s as they were, and those on
\* s leave the ones of s' as they were.
C3_CopyIsIndependent ==
    [][\A d, e \in DocIds :
        (/\ d \in live /\ e \in live /\ d # e
         /\ (info[d].copyOf = e \/ info[e].copyOf = d)
         /\ Tokenized(d)) => View(e)' = View(e)]_vars

\* C3, its case: a copy has tokenized a line that changed its stacks and
\* a sub-mode state, and the state it was copied from is as it was.
C3_Witness_CopyMovedOriginalStayed ==
    \E d, e \in DocIds :
        /\ d \in live /\ e \in live /\ info[d].copyOf = e
        /\ info[d].nlines = 1 /\ info[d].done
        /\ Resolved(docs[e], heap) = info[d].origin
        /\ View(d).patternContext # View(e).patternContext
        /\ View(d).stateContext # <<>> /\ View(e).stateContext # <<>>
        /\ View(d).stateContext[Len(View(d).stateContext)] #
                View(e).stateContext[Len(View(e).stateContext)]

\* The addresses of the state objects in the embedded-mode-state stack of d
Objects(d) ==
    {docs[d].stateContext[k].state : k \in 1 .. Len(docs[d].stateContext)} \ {TRUE_STATE}

\* C4: two states that two calls of startState returned share no state
\* object of a sub-mode, and the token calls on one leave the
\* embedded-mode-state stack and the sub-mode states of the other alone: a
\* state startState returned, with no token call on it yet, has the base
\* mode's state as the base mode starts it.
C4_StartStatesShareNothing ==
    \A d, e \in DocIds :
        (/\ d \in live /\ e \in live /\ d # e
         /\ info[d].born = "start" /\ info[e].born = "start") =>
            /\ Objects(d) \cap Objects(e) = {}
            /\ (info[e].nlines = 0 /\ initialStateContext(parserConfig) # <<>>) =>
                    View(e).stateContext = <<[mode |-> "base", value |-> 0]>>

(***************************************************************************)
(* Properties of the pattern-context stack.                                *)
(***************************************************************************)

\* The stack is not null and the root pattern is at its bottom.
RootAtBottom(stack) == stack # <<>> /\ stack[Len(stack)] = "root"

\* The scan came back to the root, and text that the caller's close
\* matches follows in the line.
BackAtRootBeforeClose(scan) ==
    /\ scan.layers # <<>>
    /\ ~scan.layers[Len(scan.layers)].open
    /\ scan.layers[Len(scan.layers)].nextPattern = "root"
    /\ match(scan.line, OffsetBefore(scan, Len(scan.layers) + 1), MatchMode.DEFAULT,
             CallerOptions(parserConfig).close, MatchState)[1] >= 0

\* C11: the pattern-context stack of every state the host holds is not
\* null and has the root pattern at its bottom, and so has the stack after
\* every layer of every scan, also when the caller's parserConfig gives
\* open and close; no scan throws for having popped the root.
C11_RootIsNeverPopped ==
    \A d \in DocIds :
        /\ d \in live => RootAtBottom(docs[d].patternContext)
        /\ \A k \in 1 .. Len(info[d].scan.stacks) : RootAtBottom(info[d].scan.stacks[k])
        /\ info[d].error # "TypeError"

\* C11, its case: with a parserConfig that gives close, a scan has popped
\* its way back to the root and gone on over text that close matches, and
\* the root is still there.
C11_Witness_CallersCloseAtRoot ==
    \E d \in live :
        /\ "close" \in DOMAIN CallerOptions(parserConfig)
        /\ info[d].done
        /\ BackAtRootBeforeClose(info[d].scan)
        /\ docs[d].patternContext = <<"root">>

\* What textBefore and justExitTemplate are when a line starts at the
\* root: in a state startState returned, and in a state that left a flag
\* header at the end of the line before.
ScanStarts ==
    {[textBefore |-> <<>>, justExitTemplate |-> "undefined"],
     [textBefore |-> <<"\n">>, justExitTemplate |-> "true"]}

\* The state with the pattern-context stack stack and the textBefore and
\* the justExitTemplate of v.
StateWith(state, stack, v) ==
    [state EXCEPT !.patternContext = stack,
                  !.textBefore = v.textBefore,
                  !.customs = [@ EXCEPT !.justExitTemplate = v.justExitTemplate]]

\* C12: the layers createLayers finds in a line depend on the line and on
\* the pattern-context stack it starts from only: a state with the same
\* stack gives the same layers for the line, whatever its textBefore and
\* its customs.justExitTemplate are.
C12_LayersDependOnStackOnly ==
    \A d \in DocIds : \A v \in ScanStarts :
        info[d].scan # NoScan =>
            createLayers(parserConfig, StateWith(docs[d], info[d].scan.entry, v),
                         info[d].scan.line, info[d].scan.offset).layers
                = info[d].scan.layers

\* The pattern entered or left at a layer.
Transitioning(layer) == IF layer.open THEN layer.nextPattern ELSE layer.prePattern

\* The transition before the k-th layer of the last scan of d, as <<open,
\* pattern>>, and the text between the two.
TransitionBefore(d, k) ==
    IF k = 1 THEN info[d].lastBefore
    ELSE <<info[d].scan.layers[k - 1].open, Transitioning(info[d].scan.layers[k - 1])>>

TextBefore(d, k) ==
    IF k = 1
    THEN info[d].sinceBefore \o slice(info[d].scan.line, info[d].scan.offset,
                                      info[d].scan.layers[1].pos)
    ELSE slice(info[d].scan.line, OffsetBefore(info[d].scan, k), info[d].scan.layers[k].pos)

\* C16: under the default preset, a layer that opens a template region
\* comes right after the exit of a template or of a flag header, with
\* nothing but white space (line ends included) between the two; so a
\* template does not open once any pattern has been entered, until a
\* template or a flag header is left again.
C16_TemplateOpensAfterExitAndSpace ==
    \A d \in DocIds : \A k \in 1 .. Len(info[d].scan.layers) :
        (/\ info[d].scan.layers[k].open
         /\ info[d].scan.layers[k].nextPattern = "template") =>
            /\ TransitionBefore(d, k) \in {<<FALSE, "template">>, <<FALSE, "templateHeader">>}
            /\ \A i \in 1 .. Len(TextBefore(d, k)) : TextBefore(d, k)[i] \in {" ", "\n"}

\* C16, its case: a template opens as the first layer of a line, the
\* flag header having been left on a line before.
C16_Witness_OpensOnNextLine ==
    \E d \in DocIds :
        /\ info[d].scan.layers # <<>>
        /\ info[d].scan.layers[1].open
        /\ info[d].scan.layers[1].nextPattern = "template"
        /\ info[d].lastBefore = <<FALSE, "templateHeader">>
        /\ info[d].sinceBefore # <<>>

(***************************************************************************)
(* Properties of the token dispatcher, over the tokens info[d].log         *)
(* records for the line of the scan info[d].scan.                          *)
(***************************************************************************)

\* The pattern of the layer has neither patternStyles nor includePattern.
PlainBoundary(layer) ==
    /\ Patterns[parserConfig][Transitioning(layer)].patternStyles = <<>>
    /\ ~Patterns[parserConfig][Transitioning(layer)].includePattern

\* C14: a token call made with the cursor at the position of a layer
\* whose pattern has neither patternStyles nor includePattern throws, so
\* that no token starts at such a position.
C14_PlainBoundaryFails ==
    \A d \in DocIds : \A j \in 1 .. Len(info[d].scan.layers) :
        PlainBoundary(info[d].scan.layers[j]) =>
            \A k \in 1 .. Len(info[d].log) :
                info[d].log[k][1] # info[d].scan.layers[j].pos

\* This step is a token call of a run over one line.
TokenCallStep == cur # 0 /\ cur' = cur /\ ~eol(stream)

\* The layers pending when the token call of this step gets to them: the
\* ones its scan finds when it starts the line, else the ones the state
\* holds.
PendingLayers ==
    IF ~docs[cur].start \/ stream.pos = 0 THEN info'[cur].scan.layers
    ELSE docs[cur].layers

\* The boundary of a call that starts at position start with layer
\* pending: the layer's position when it starts before it, else the end
\* of its delimiter.
Boundary(layer, start) ==
    IF start < layer.pos THEN layer.pos ELSE layer.pos + Length(layer.matched)

\* The call that starts at start with layer pending gives the delimiter
\* the style of its pattern (tokenPattern).
StyledDelimiter(layer, start) ==
    start = layer.pos /\ Patterns[parserConfig][Transitioning(layer)].patternStyles # <<>>

\* The embedded-mode-state stack when the call that starts at start with
\* layer pending hands text to the sub-mode: the stack before the call,
\* after the push or the pop token makes first (index.ts 369, 372).
StackAtDelegation(stack, layer, start) ==
    LET pattern == Patterns[parserConfig][Transitioning(layer)]
    IN  IF start # layer.pos \/ pattern.patternStyles # <<>> \/ pattern.mode = "null"
        THEN stack
        ELSE IF layer.open /\ pattern.includePattern
        THEN <<[mode |-> pattern.mode, state |-> TRUE_STATE]>> \o stack
        ELSE IF ~layer.open /\ ~pattern.includePattern THEN Tail(stack)
        ELSE stack

\* The style the token call of this step returned.
ReturnedStyle == info'[cur].log[Len(info'[cur].log)][3]

\* A token call that returns with a layer pending leaves the cursor at or
\* before its boundary; with no active sub-mode, and unless the
\* delimiter gets the style of its pattern and styled says so, it leaves
\* it on the boundary and returns no style.
WithinBoundary(layer, styled) ==
    /\ stream'.pos <= Boundary(layer, stream.pos)
    /\ (/\ StackAtDelegation(docs[cur].stateContext, layer, stream.pos) = <<>>
        /\ ~(styled /\ StyledDelimiter(layer, stream.pos))) =>
            /\ stream'.pos = Boundary(layer, stream.pos)
            /\ ReturnedStyle = "null"

\* C15, as stated: while a layer is pending, a token call that starts
\* before the layer's position leaves the cursor at or before it, and one
\* that starts at it or inside its delimiter leaves the cursor at or
\* before the delimiter's end, whatever the sub-mode's tokenizer
\* consumed; with no active sub-mode the cursor is left on that boundary
\* and the style is none.
C15_NeverPastBoundary ==
    [][(/\ TokenCallStep
        /\ info'[cur].error = "none"
        /\ PendingLayers # <<>>) => WithinBoundary(PendingLayers[1], FALSE)]_vars

\* C15, amended: the same, the style being none with no active sub-mode
\* unless the call starts at the position of a layer whose pattern has
\* patternStyles: such a call returns the pattern's style for the
\* delimiter.
C15_NeverPastBoundaryStyledApart ==
    [][(/\ TokenCallStep
        /\ info'[cur].error = "none"
        /\ PendingLayers # <<>>) => WithinBoundary(PendingLayers[1], TRUE)]_vars

\* C15, its case: the base mode, which reads a run of characters that are
\* not white space, was called before a layer with such a run going on
\* past the layer's position, and the token ends at the layer's position.
C15_Witness_BackedUp ==
    \E d \in DocIds : \E k \in 1 .. Len(info[d].log) :
    \E j \in 1 .. Len(info[d].scan.layers) :
        /\ info[d].log[k][3] \in {"base even", "base odd"}
        /\ info[d].log[k][1] < info[d].scan.layers[j].pos
        /\ info[d].log[k][2] = info[d].scan.layers[j].pos
        /\ eatWhile(info[d].line, info[d].log[k][1], Chars \ Whitespace)
                > info[d].scan.layers[j].pos

\* C15, the case of no sub-mode: with no base mode, the text before a
\* layer is one token with no style that ends at the layer's position.
C15_Reached_NoSubMode ==
    \E d \in DocIds :
        /\ initialStateContext(parserConfig) = <<>>
        /\ info[d].scan.layers # <<>>
        /\ info[d].scan.layers[1].pos > 0
        /\ info[d].log = << <<0, info[d].scan.layers[1].pos, "null">> >>

\* What a hook of the caller records when it is called on pattern with
\* current on top of the stack and seen in customs.justExitTemplate.
Event(hook, pattern, current, seen) ==
    [hook |-> hook, pattern |-> pattern, current |-> current, justExitTemplate |-> seen]

\* customs.justExitTemplate after the default hooks of the layer, seen
\* being its value before.
SeenAfter(layer, seen) ==
    IF layer.open THEN "false"
    ELSE IF layer.prePattern \in {"template", "templateHeader"} THEN "true"
    ELSE seen

\* What the caller's hooks record over layer, in the order the claim gives:
\* on an open, beforeEnter after the default beforeEnter and before the
\* push, afterEnter after the push; on a close, beforeExit before the pop,
\* afterExit after the pop and after the default afterExit.
EventsOf(layer, seen) ==
    IF layer.open
    THEN << Event("customBeforeEnter", layer.nextPattern, layer.prePattern, "false"),
            Event("customAfterEnter", layer.nextPattern, layer.nextPattern, "false") >>
    ELSE << Event("customBeforeExit", layer.prePattern, layer.prePattern, seen),
            Event("customAfterExit", layer.prePattern, layer.nextPattern,
                  SeenAfter(layer, seen)) >>

RECURSIVE ExpectedTrace(_, _, _)
ExpectedTrace(layers, k, seen) ==
    IF k > Len(layers) THEN <<>>
    ELSE EventsOf(layers[k], seen)
            \o ExpectedTrace(layers, k + 1, SeenAfter(layers[k], seen))

\* The caller gives the four hooks.
CallerHasHooks ==
    \A name \in {"beforeEnter", "afterEnter", "beforeExit", "afterExit"} :
        customHook(CallerOptions(parserConfig), name) # "none"

\* C18: with a caller that gives the four hooks, over the layers of a line
\* the caller's hooks are called once each per transition, in order: on
\* an open the default beforeEnter (the caller's beforeEnter sees
\* justExitTemplate false), the caller's beforeEnter with the old pattern
\* still current, then the push, then afterEnter with the new pattern
\* current; on a close beforeExit with the pattern still current, then
\* the pop, then the default afterExit (the caller's afterExit sees the
\* flag it sets), then the caller's afterExit.
C18_HooksComposedInOrder ==
    \A d \in live :
        (CallerHasHooks /\ info[d].scan # NoScan /\ info[d].error = "none")
            => docs[d].customs.trace
                    = ExpectedTrace(info[d].scan.layers, 1, "undefined")

\* C18, its case: the caller's afterExit has seen the flag that the
\* default afterExit sets on leaving a template, and after it the caller's
\* beforeEnter has seen the flag cleared by the default beforeEnter.
C18_Witness_CallerSeesDefaults ==
    \E d \in live : \E k \in 2 .. Len(docs[d].customs.trace) - 1 :
        /\ docs[d].customs.trace[k].hook = "customAfterExit"
        /\ docs[d].customs.trace[k].pattern = "template"
        /\ docs[d].customs.trace[k].justExitTemplate = "true"
        /\ docs[d].customs.trace[k - 1].justExitTemplate = "false"
        /\ docs[d].customs.trace[k + 1].hook = "customBeforeEnter"
        /\ docs[d].customs.trace[k + 1].justExitTemplate = "false"

\* The layers of scan that open a pattern with a mode, and those that
\* close one.
ModeOpens(patterns, scan) ==
    {k \in 1 .. Len(scan.layers) :
        scan.layers[k].open /\ patterns[scan.layers[k].nextPattern].mode # "null"}

ModeCloses(patterns, scan) ==
    {k \in 1 .. Len(scan.layers) :
        ~scan.layers[k].open /\ patterns[scan.layers[k].prePattern].mode # "null"}

\* C19: when the token calls of a line have consumed all its layers, the
\* embedded-mode stack has one entry more for each layer that opened a
\* pattern with a mode and one entry less for each layer that closed one,
\* whatever the grammar and however many token calls a delimiter took.
C19_OneChangePerLayer ==
    \A d \in live :
        (info[d].done /\ info[d].error = "none" /\ info[d].scan # NoScan)
            => Len(docs[d].stateContext)
                = Len(initialStateContext(parserConfig))
                    + Cardinality(ModeOpens(Patterns[parserConfig], info[d].scan))
                    - Cardinality(ModeCloses(Patterns[parserConfig], info[d].scan))

\* C19 on the default grammar alone, whose delimiters with a mode all have
\* patternStyles.
C19_OneChangePerLayerByDefault ==
    parserConfig = "default" => C19_OneChangePerLayer

\* The layers of scan are in order: each starts at or after the offset the
\* scan is at, which is the end of the layer before it.
InOrder(scan) ==
    \A k \in 1 .. Len(scan.layers) :
        /\ scan.layers[k].pos >= OffsetBefore(scan, k)
        /\ k > 1 => scan.layers[k].pos >= scan.layers[k - 1].pos

\* The patterns of the layers of scan chain from the top of the stack on
\* entry to top, the top of the stack on return.
Chained(scan, top) ==
    /\ scan.layers[1].prePattern = Head(scan.entry)
    /\ \A k \in 1 .. Len(scan.layers) - 1 :
            scan.layers[k].nextPattern = scan.layers[k + 1].prePattern
    /\ scan.layers[Len(scan.layers)].nextPattern = top

\* C20: the layers of every createLayers call are in order, their patterns
\* chain from the top of the stack on entry to the top of the stack on
\* return, and the depth of the stack on return is the depth on entry plus
\* the opening layers minus the closing ones.
C20_LayersWellFormed ==
    \A d \in live :
        (info[d].scan # NoScan /\ info[d].error = "none") =>
            /\ InOrder(info[d].scan)
            /\ info[d].scan.layers # <<>> =>
                    Chained(info[d].scan, Head(docs[d].patternContext))
            /\ Len(docs[d].patternContext)
                    = Len(info[d].scan.entry) + Opens(info[d].scan) - Closes(info[d].scan)

\* C20, its case: a scan entered below the root has returned layers of
\* both directions, one of them starting where the one before it ends.
C20_Witness_BothDirections ==
    \E d \in live :
        /\ info[d].error = "none"
        /\ Len(info[d].scan.entry) > 1
        /\ Len(info[d].scan.layers) >= 3
        /\ Opens(info[d].scan) > 0
        /\ Closes(info[d].scan) > 0
        /\ \E k \in 2 .. Len(info[d].scan.layers) :
                info[d].scan.layers[k].pos = OffsetBefore(info[d].scan, k)

\* The sub-mode whose tokenizer returns style: the base mode and the code
\* mode of the model name themselves in their styles.
TokenizerOf(style) ==
    CASE style \in {"base even", "base odd"} -> "base"
      [] style \in {"code even", "code odd"} -> "code"
      [] OTHER -> "none"

\* The mode on top of stack, "none" when the stack is empty.
TopMode(stack) == IF stack = <<>> THEN "none" ELSE stack[1].mode

\* The token call that starts at the position of layer, whose pattern has
\* a mode, before being the embedded-mode-state stack before the call and
\* after the one after it: with patternStyles the delimiter is one token
\* of the pattern's style and the stack is synchronised; else with
\* includePattern the entered sub-mode reads an opening delimiter, pushed
\* before, and the exited one a closing delimiter, popped when its end is
\* reached; without includePattern the enclosing sub-mode reads an
\* opening delimiter, the push made when its end is reached, and the
\* restored enclosing sub-mode a closing one, popped before.
DelimiterInOrder(layer, before, after) ==
    LET pattern == Patterns[parserConfig][Transitioning(layer)]
        end     == layer.pos + Length(layer.matched)
        reached == IF stream'.pos = end THEN 1 ELSE 0
    IN  IF pattern.patternStyles # <<>>
        THEN /\ stream'.pos = end
             /\ ReturnedStyle = pattern.patternStyles[IF layer.open THEN 1 ELSE 2]
             /\ Len(after) = Len(before) + (IF layer.open THEN 1 ELSE -1)
        ELSE IF pattern.includePattern /\ layer.open
        THEN /\ TokenizerOf(ReturnedStyle) = pattern.mode
             /\ Len(after) = Len(before) + 1
             /\ TopMode(after) = pattern.mode
        ELSE IF pattern.includePattern
        THEN /\ TokenizerOf(ReturnedStyle) = TopMode(before)
             /\ TopMode(before) = pattern.mode
             /\ Len(after) = Len(before) - reached
        ELSE IF layer.open
        THEN /\ TokenizerOf(ReturnedStyle) = TopMode(before)
             /\ Len(after) = Len(before) + reached
             /\ reached = 1 => TopMode(after) = pattern.mode
        ELSE /\ TokenizerOf(ReturnedStyle) = TopMode(Tail(before))
             /\ after = Tail(before)

\* A later token call inside the opening delimiter of a pattern with
\* includePattern, a mode and no patternStyles is read by the entered
\* sub-mode too.
DelimiterGoesOn(layer) ==
    LET pattern == Patterns[parserConfig][Transitioning(layer)]
    IN  (pattern.patternStyles = <<>> /\ pattern.includePattern /\ layer.open)
            => TokenizerOf(ReturnedStyle) = pattern.mode

\* C21: a token call at the delimiter of a pattern with a mode
\* synchronises the embedded-mode-state stack and has the delimiter read
\* in the order that includePattern gives: push before reading and pop
\* when the end is reached with it, push when the end is reached and pop
\* before reading without it; patternStyles, when present, comes first
\* and the delimiter is one token of that style.
C21_SyncOrderAtDelimiters ==
    [][(/\ TokenCallStep
        /\ info'[cur].error = "none"
        /\ PendingLayers # <<>>
        /\ Patterns[parserConfig][Transitioning(PendingLayers[1])].mode # "null"
        /\ stream.pos >= PendingLayers[1].pos) =>
            IF stream.pos = PendingLayers[1].pos
            THEN DelimiterInOrder(PendingLayers[1], docs[cur].stateContext,
                                  docs'[cur].stateContext)
            ELSE DelimiterGoesOn(PendingLayers[1])]_vars

\* The token of the log of d that starts at the position of layer k of
\* its scan was read by the sub-mode mode.
ReadBy(d, k, mode) ==
    \E t \in 1 .. Len(info[d].log) :
        /\ info[d].log[t][1] = info[d].scan.layers[k].pos
        /\ TokenizerOf(info[d].log[t][3]) = mode

\* C21, its case: on one line a pattern with the code mode and no
\* patternStyles has been opened and closed inside the base mode without
\* includePattern, both delimiters read by the base mode, and one with
\* includePattern, both delimiters read by the code mode.
C21_Witness_FourOrders ==
    \E d \in live : \E k1, k2, k3, k4 \in 1 .. Len(info[d].scan.layers) :
        LET layers == info[d].scan.layers
            kind(k) == <<layers[k].open,
                         Patterns[parserConfig][Transitioning(layers[k])].includePattern>>
        IN  /\ info[d].done /\ info[d].error = "none"
            /\ \A k \in {k1, k2, k3, k4} :
                    /\ Patterns[parserConfig][Transitioning(layers[k])].mode = "code"
                    /\ Patterns[parserConfig][Transitioning(layers[k])].patternStyles = <<>>
            /\ kind(k1) = <<TRUE, FALSE>> /\ ReadBy(d, k1, "base")
            /\ kind(k2) = <<FALSE, FALSE>> /\ ReadBy(d, k2, "base")
            /\ kind(k3) = <<TRUE, TRUE>> /\ ReadBy(d, k3, "code")
            /\ kind(k4) = <<FALSE, TRUE>> /\ ReadBy(d, k4, "code")

\* The grammar is the one of createDefaultOptions, with no pattern of the
\* caller.
DefaultPreset == parserConfig \in {"default", "plain"}

\* The cursor is where token expects it for layer: at or before its
\* position, or inside its delimiter.
CursorFits(layer, pos) ==
    \/ pos <= layer.pos
    \/ layer.pos < pos /\ pos < layer.pos + Length(layer.matched)

\* C22: under the default preset, with lines tokenized from their start
\* by sub-modes that advance, no token call throws 'This is impossible!':
\* when a call starts with a layer pending the cursor is at or before the
\* layer's position or inside its delimiter, and tokenPattern, which
\* throws unless it is entered at the layer's position with patternStyles
\* there, never throws.
C22_ImpossibleIsUnreachable ==
    [][(TokenCallStep /\ DefaultPreset) =>
            /\ info'[cur].error # "This is impossible!"
            /\ PendingLayers # <<>> => CursorFits(PendingLayers[1], stream.pos)]_vars

\* A token of the log of d starts at the position of layer k of its scan.
StartsAt(d, k) ==
    \E t \in 1 .. Len(info[d].log) : info[d].log[t][1] = info[d].scan.layers[k].pos

\* C22, its case: a line of the default preset is done without error,
\* token calls having started before a layer and ended at it, at a layer
\* whose pattern has patternStyles (tokenPattern) and at one whose pattern
\* has none.
C22_Witness_EveryBranchTaken ==
    \E d \in live : \E k1, k2, k3 \in 1 .. Len(info[d].scan.layers) :
        LET layers == info[d].scan.layers
        IN  /\ DefaultPreset /\ info[d].done /\ info[d].error = "none"
            /\ \E t \in 1 .. Len(info[d].log) :
                    /\ info[d].log[t][1] < layers[k1].pos
                    /\ info[d].log[t][2] = layers[k1].pos
            /\ Patterns[parserConfig][Transitioning(layers[k2])].patternStyles # <<>>
            /\ StartsAt(d, k2)
            /\ Patterns[parserConfig][Transitioning(layers[k3])].patternStyles = <<>>
            /\ StartsAt(d, k3)

=============================================================================
